---- MODULE Spec2Model ----
(***************************************************************************)
(* Model of the aggregation engine, the match store, the team balancer,    *)
(* the duel reconciliation and the derived metrics of the views of         *)
(* src/index.tsx.                                                          *)
(*                                                                         *)
(* Numbers: counting stats are naturals.  hltv_3_0_score is a decimal in   *)
(* the source; it is carried here in integer hundredths, and every         *)
(* quotient is an exact fraction, with 0/0 for NaN and n/0 for Infinity.   *)
(* The rounding of a double in its last bit is not modelled.               *)
(* Object.values(playerMap) is modelled in insertion order, which is what  *)
(* the engine gives for 17-digit steam ids (they are not array indices).   *)
(*                                                                         *)
(* Persistence: the IndexedDB object store is a map from match id to       *)
(* match; readwrite transactions on it run one at a time in the order of   *)
(* their creation, and the code that awaits one runs before the next.      *)
(***************************************************************************)
EXTENDS Integers, Sequences, FiniteSets, TLC

VARIABLES
  matches,            \* StatsProvider: useState<Match[]>
  allPlayers,         \* StatsProvider: useMemo(aggregatePlayerStats(matches))
  lastOp,             \* ghost: the store operation that ran last; keeps: an add found no stored id to replace
  undo,               \* ghost: id and allPlayers-before of a preceding addMatch
  roundTrip,          \* ghost: set when deleteMatch(id) directly follows addMatch of id
  db,                 \* IndexedDB object store "matches": key (id) -> match
  dbQueue,            \* readwrite transactions on the store, in creation order
  lobbyPlayers,       \* TeamBuilder: useState<string[]>
  manualAssignments,  \* TeamBuilder: useState<Record<string, team1|team2|bench>>
  generatedTeams,     \* TeamBuilder: useState<{team1, team2} | null>
  teamsOp,            \* ghost: outcome of the last generateTeams call
  player1Id,          \* Duels: useState<string | null>
  player2Id,          \* Duels: useState<string | null>
  duelStats,          \* Duels: useMemo(...)
  view                \* the figures of the component rendered last

vars == <<matches, allPlayers, lastOp, undo, roundTrip, db, dbQueue,
          lobbyPlayers, manualAssignments, generatedTeams, teamsOp, player1Id,
          player2Id, duelStats, view>>

storeVars == <<matches, allPlayers, lastOp, undo, roundTrip, db, dbQueue>>
teamVars == <<lobbyPlayers, manualAssignments, generatedTeams, teamsOp>>
duelVars == <<player1Id, player2Id, duelStats>>

\* JavaScript null for the string-valued selections
Null == "null"

\* null for the record-valued ghosts and results
None == [set |-> FALSE]

----------------------------------------------------------------------------
(* Bounds *)

\* longest match collection the store operations build
MaxMatches == 3

\* longest argument list of addMatches / deleteMatches / restoreData
MaxBulk == 2

\* store operations whose persistence step is still awaited
MaxPending == 2

----------------------------------------------------------------------------
(* Values *)

Digit == <<"0", "1", "2", "3", "4", "5", "6", "7", "8", "9">>

RECURSIVE DecStr(_)
DecStr(n) == IF n < 10 THEN Digit[n + 1]
             ELSE DecStr(n \div 10) \o Digit[(n % 10) + 1]

\* steam_id: number | string;  steam_id.toString()
NumId(n) == [tag |-> "number", val |-> n]
StrId(s) == [tag |-> "string", val |-> s]

steamIdToString(steam_id) ==
  IF steam_id.tag = "number" THEN DecStr(steam_id.val) ELSE steam_id.val

\* x || 0 on an optional numeric field
OrZero(player, field) ==
  IF field \in DOMAIN player THEN player[field] ELSE 0

Duel(k, d) == [kills |-> k, deaths |-> d, diff |-> k - d]

NoDuels == [o \in {} |-> Duel(0, 0)]

\* the required fields of a participant record
PlayerStats(name, steam_id, team, duels, k, d, a, rp, dmg, ok, od, oa, sk, ud, ft, score) ==
  [name |-> name, steam_id |-> steam_id, last_team_name |-> team,
   duels |-> duels, kills |-> k, deaths |-> d, assists |-> a,
   rounds_played |-> rp, damage_total |-> dmg, opening_kills |-> ok,
   opening_deaths |-> od, opening_attempts |-> oa, sniper_kills |-> sk,
   utility_damage |-> ud, flashes_thrown |-> ft, hltv_3_0_score |-> score]

\* the optional fields of newer records
Extras(tk, c1, c2, c3, c4, c5) ==
  [trade_kills |-> tk, clutches_won_1v1 |-> c1, clutches_won_1v2 |-> c2,
   clutches_won_1v3 |-> c3, clutches_won_1v4 |-> c4, clutches_won_1v5 |-> c5]

Match(id, timestamp, data) ==
  [id |-> id, timestamp |-> timestamp, data |-> data]

SumFields == {"kills", "deaths", "assists", "rounds_played", "damage_total",
              "hltv_3_0_score", "sniper_kills", "utility_damage",
              "flashes_thrown", "opening_kills", "opening_deaths",
              "opening_attempts"}

----------------------------------------------------------------------------
(* Aggregation engine *)

NewAggregate(steamIdStr, name) ==
  [steam_id |-> steamIdStr, name |-> name, matches |-> 0, kills |-> 0,
   deaths |-> 0, assists |-> 0, rounds_played |-> 0, damage_total |-> 0,
   hltv_3_0_score |-> 0, sniper_kills |-> 0, utility_damage |-> 0,
   flashes_thrown |-> 0, opening_kills |-> 0, opening_deaths |-> 0,
   opening_attempts |-> 0, trade_kills |-> 0, clutches_won |-> 0]

Clutches(player) ==
  OrZero(player, "clutches_won_1v1") + OrZero(player, "clutches_won_1v2")
  + OrZero(player, "clutches_won_1v3") + OrZero(player, "clutches_won_1v4")
  + OrZero(player, "clutches_won_1v5")

\* FoldInto with the kills of a record added to the wrong counter
FoldIntoSwapped(p, player) ==
  [p EXCEPT !.name = player.name,
            !.matches = @ + 1,
            !.kills = @ + player.deaths,
            !.deaths = @ + player.kills,
            !.assists = @ + player.assists,
            !.rounds_played = @ + player.rounds_played,
            !.damage_total = @ + player.damage_total,
            !.hltv_3_0_score = @ + player.hltv_3_0_score,
            !.sniper_kills = @ + player.sniper_kills,
            !.utility_damage = @ + player.utility_damage,
            !.flashes_thrown = @ + player.flashes_thrown,
            !.opening_kills = @ + player.opening_kills,
            !.opening_deaths = @ + player.opening_deaths,
            !.opening_attempts = @ + player.opening_attempts,
            !.trade_kills = @ + OrZero(player, "trade_kills"),
            !.clutches_won = @ + 0]

\* FoldInto that counts the 1v1 bracket only
FoldIntoFirstBracket(p, player) ==
  [p EXCEPT !.name = player.name,
            !.matches = @ + 1,
            !.kills = @ + player.kills,
            !.deaths = @ + player.deaths,
            !.assists = @ + player.assists,
            !.rounds_played = @ + player.rounds_played,
            !.damage_total = @ + player.damage_total,
            !.hltv_3_0_score = @ + player.hltv_3_0_score,
            !.sniper_kills = @ + player.sniper_kills,
            !.utility_damage = @ + player.utility_damage,
            !.flashes_thrown = @ + player.flashes_thrown,
            !.opening_kills = @ + player.opening_kills,
            !.opening_deaths = @ + player.opening_deaths,
            !.opening_attempts = @ + player.opening_attempts,
            !.trade_kills = @ + OrZero(player, "trade_kills"),
            !.clutches_won = @ + OrZero(player, "clutches_won_1v1")]

\* FoldInto with damage_total assigned (=) where the source adds (+=)
FoldIntoAssigned(p, player) ==
  [p EXCEPT !.name = player.name,
            !.matches = @ + 1,
            !.kills = @ + player.kills,
            !.deaths = @ + player.deaths,
            !.assists = @ + player.assists,
            !.rounds_played = @ + player.rounds_played,
            !.damage_total = player.damage_total,
            !.hltv_3_0_score = @ + player.hltv_3_0_score,
            !.sniper_kills = @ + player.sniper_kills,
            !.utility_damage = @ + player.utility_damage,
            !.flashes_thrown = @ + player.flashes_thrown,
            !.opening_kills = @ + player.opening_kills,
            !.opening_deaths = @ + player.opening_deaths,
            !.opening_attempts = @ + player.opening_attempts,
            !.trade_kills = @ + OrZero(player, "trade_kills"),
            !.clutches_won = @ + Clutches(player)]

FoldIntoFirstName(p, player) ==
  [p EXCEPT !.matches = @ + 1,
            !.kills = @ + player.kills,
            !.deaths = @ + player.deaths,
            !.assists = @ + player.assists,
            !.rounds_played = @ + player.rounds_played,
            !.damage_total = @ + player.damage_total,
            !.hltv_3_0_score = @ + player.hltv_3_0_score,
            !.sniper_kills = @ + player.sniper_kills,
            !.utility_damage = @ + player.utility_damage,
            !.flashes_thrown = @ + player.flashes_thrown,
            !.opening_kills = @ + player.opening_kills,
            !.opening_deaths = @ + player.opening_deaths,
            !.opening_attempts = @ + player.opening_attempts,
            !.trade_kills = @ + OrZero(player, "trade_kills"),
            !.clutches_won = @ + Clutches(player)]

\* body of match.data.forEach: one participant folded into the aggregate p
FoldInto(p, player) ==
  [p EXCEPT !.name = player.name,
            !.matches = @ + 1,
            !.kills = @ + player.kills,
            !.deaths = @ + player.deaths,
            !.assists = @ + player.assists,
            !.rounds_played = @ + player.rounds_played,
            !.damage_total = @ + player.damage_total,
            !.hltv_3_0_score = @ + player.hltv_3_0_score,
            !.sniper_kills = @ + player.sniper_kills,
            !.utility_damage = @ + player.utility_damage,
            !.flashes_thrown = @ + player.flashes_thrown,
            !.opening_kills = @ + player.opening_kills,
            !.opening_deaths = @ + player.opening_deaths,
            !.opening_attempts = @ + player.opening_attempts,
            !.trade_kills = @ + OrZero(player, "trade_kills"),
            !.clutches_won = @ + Clutches(player)]

\* playerMap is kept as its keys in insertion order plus the key -> value map
EmptyPlayerMap == [keys |-> <<>>, val |-> [k \in {} |-> NewAggregate("", "")]]

\* FoldPlayer with the map keyed by the name of the record
FoldPlayerByName(playerMap, player) ==
  LET steamIdStr == steamIdToString(player.steam_id)
      created ==
        IF player.name \notin DOMAIN playerMap.val
        THEN [keys |-> Append(playerMap.keys, player.name),
              val |-> playerMap.val @@
                        (player.name :> NewAggregate(steamIdStr, player.name))]
        ELSE playerMap
  IN [created EXCEPT !.val[player.name] = FoldInto(@, player)]

FoldPlayer(playerMap, player) ==
  LET steamIdStr == steamIdToString(player.steam_id)
      created ==
        IF steamIdStr \notin DOMAIN playerMap.val
        THEN [keys |-> Append(playerMap.keys, steamIdStr),
              val |-> playerMap.val @@
                        (steamIdStr :> NewAggregate(steamIdStr, player.name))]
        ELSE playerMap
  IN [created EXCEPT !.val[steamIdStr] = FoldInto(@, player)]

RECURSIVE FoldData(_, _)
FoldData(playerMap, data) ==
  IF data = <<>> THEN playerMap
  ELSE FoldData(FoldPlayer(playerMap, Head(data)), Tail(data))

RECURSIVE FoldMatches(_, _)
FoldMatches(playerMap, ms) ==
  IF ms = <<>> THEN playerMap
  ELSE FoldMatches(FoldData(playerMap, Head(ms).data), Tail(ms))

aggregatePlayerStats(ms) ==
  LET playerMap == FoldMatches(EmptyPlayerMap, ms)
  IN [i \in 1..Len(playerMap.keys) |-> playerMap.val[playerMap.keys[i]]]

----------------------------------------------------------------------------
(* Sample participant records and matches *)

Ann1 == PlayerStats("ann", StrId("1"), "red", ("2" :> Duel(3, 1)),
                    20, 10, 4, 24, 2000, 3, 2, 5, 8, 150, 6, 120)
          @@ Extras(2, 2, 1, 0, 0, 0)
Bob1 == PlayerStats("bob", StrId("2"), "blue", ("1" :> Duel(2, 2)),
                    10, 0, 1, 24, 900, 1, 3, 4, 5, 40, 2, 90)
          @@ Extras(1, 0, 0, 0, 0, 0)
Ann2 == PlayerStats("anna", NumId(1), "blue", ("2" :> Duel(1, 1)),
                    5, 7, 2, 16, 700, 0, 1, 1, 2, 30, 1, 100)
Cat1 == PlayerStats("cat", StrId("3"), "red", ("1" :> Duel(3, 1)),
                    9, 6, 3, 16, 1100, 2, 0, 2, 0, 75, 3, 110)
Bob2 == PlayerStats("bobby", NumId(2), "red",
                    ("1" :> Duel(1, 4)) @@ ("3" :> Duel(2, 4)),
                    7, 8, 5, 30, 1300, 4, 4, 8, 1, 20, 9, 70)
          @@ [trade_kills |-> 3]
Cat2 == PlayerStats("cat", StrId("3"), "blue", ("2" :> Duel(4, 2)),
                    12, 9, 0, 30, 1700, 1, 1, 2, 6, 10, 4, 130)
Ann3 == PlayerStats("ann", StrId("1"), "red", NoDuels,
                    0, 9, 1, 30, 300, 0, 2, 2, 0, 0, 0, 40)

Data1 == <<Ann1, Bob1>>
Data2 == <<Ann2, Cat1>>
Dan1 == PlayerStats("dan", StrId("4"), "red", NoDuels,
                    30, 5, 2, 20, 2600, 6, 1, 7, 20, 90, 5, 250)
Bob3 == PlayerStats("bob", StrId("2"), "blue", ("4" :> Duel(1, 5)),
                    6, 12, 3, 20, 800, 1, 5, 6, 0, 15, 7, 100)

Data3 == <<Bob2, Cat2, Ann3>>
Data4 == <<Dan1, Bob3>>

\* a match of four players whose ratings lie far apart
Ann4 == PlayerStats("ann", StrId("1"), "red", NoDuels,
                    25, 10, 3, 20, 2000, 3, 1, 4, 0, 40, 5, 200)
Bob4 == PlayerStats("bob", StrId("2"), "red", NoDuels,
                    18, 12, 4, 20, 1500, 2, 2, 4, 0, 30, 6, 150)
Cat3 == PlayerStats("cat", StrId("3"), "blue", NoDuels,
                    6, 18, 2, 20, 600, 1, 3, 4, 0, 10, 4, 50)
Dan2 == PlayerStats("dan", StrId("4"), "blue", NoDuels,
                    4, 20, 1, 20, 500, 0, 4, 4, 0, 5, 2, 40)
Data6 == <<Ann4, Bob4, Cat3, Dan2>>

\* records of a longer file: a player who left before the first round, and
\* two players at the two sides of the sniper threshold
Eve1 == PlayerStats("eve", StrId("5"), "red", NoDuels,
                    0, 2, 0, 0, 0, 0, 0, 0, 0, 0, 0, 0)
Fay1 == PlayerStats("fay", StrId("6"), "red", ("7" :> Duel(5, 4)),
                    100, 50, 10, 90, 9000, 10, 8, 18, 40, 200, 12, 150)
Gus1 == PlayerStats("gus", StrId("7"), "blue", ("6" :> Duel(4, 5)),
                    100, 60, 12, 90, 9500, 9, 9, 18, 41, 100, 10, 140)

Data5 == <<Fay1, Eve1, Gus1>>

MatchIds == {"m1", "m2", "m3"}

SteamIdStrs == {"1", "2", "3", "4"}

\* the matches offered to the store: three uploaded files under ids of their
\* own, the first file uploaded a second time (same timestamp, another id),
\* and the second file under the id of the first
MatchPool == {Match("m1", 30, Data1), Match("m2", 10, Data2),
              Match("m3", 20, Data3), Match("m2", 30, Data1),
              Match("m1", 40, Data2)}

\* the matches of the collections the views are rendered over
ViewPool == {Match("m1", 30, Data1), Match("m2", 10, Data2),
             Match("m3", 20, Data3), Match("m4", 40, Data5)}

ViewIds == {"1", "2", "3", "5", "6", "7"}

RECURSIVE SeqsUpTo(_, _)
SeqsUpTo(S, n) ==
  IF n = 0 THEN {<<>>}
  ELSE LET shorter == SeqsUpTo(S, n - 1)
       IN shorter \cup {Append(q, x) : q \in {r \in shorter : Len(r) = n - 1}, x \in S}

Range(q) == {q[i] : i \in 1..Len(q)}

DistinctIds(ms) == \A i, j \in 1..Len(ms) : ms[i].id = ms[j].id => i = j

----------------------------------------------------------------------------
(* Numbers *)

\* A non-negative JavaScript number as the exact fraction num/den.  den = 0
\* is what a division by zero leaves: 0/0 is NaN and n/0 with n > 0 is
\* Infinity.
Frac(n, d) == [num |-> n, den |-> d]
FracAdd(x, y) == Frac(x.num * y.den + y.num * x.den, x.den * y.den)
FracLeq(x, y) == x.num * y.den <= y.num * x.den
FracLess(x, y) == x.num * y.den < y.num * x.den

RECURSIVE GCD(_, _)
GCD(a, b) == IF b = 0 THEN a ELSE GCD(b, a % b)

\* the same number in lowest terms
Lowest(x) ==
  IF x.den = 0 THEN x
  ELSE LET g == GCD(x.num, x.den) IN Frac(x.num \div g, x.den \div g)

Num(k) == Frac(k, 1)
NaN == Frac(0, 0)
IsNaN(x) == x.num = 0 /\ x.den = 0
IsInfinity(x) == x.num # 0 /\ x.den = 0

\* x / y: covers n/0 = Infinity, 0/0 = NaN, n/Infinity = 0, NaN/y = NaN
Divide(x, y) == Frac(x.num * y.den, x.den * y.num)

\* x * y: covers Infinity * 0 = NaN
Times(x, y) == Frac(x.num * y.num, x.den * y.den)

\* x || y: 0 and NaN are falsy, Infinity is truthy
OrElse(x, y) == IF x.num # 0 THEN x ELSE y

\* Math.round: to the nearest integer, halves upwards; NaN and Infinity stay
MathRound(x) ==
  IF x.den = 0 THEN x ELSE Num((2 * x.num + x.den) \div (2 * x.den))

\* Math.min: NaN if an argument is NaN
MathMin(x, y) ==
  IF IsNaN(x) \/ IsNaN(y) THEN NaN ELSE IF FracLeq(x, y) THEN x ELSE y

\* hltv_3_0_score of a record or an aggregate as a number
Score(p) == Frac(p.hltv_3_0_score, 100)

RECURSIVE Pow10(_)
Pow10(digits) == IF digits = 0 THEN 1 ELSE 10 * Pow10(digits - 1)

\* text is a sequence of one-character strings
RECURSIVE DecChars(_)
DecChars(n) == IF n < 10 THEN <<Digit[n + 1]>>
               ELSE Append(DecChars(n \div 10), Digit[(n % 10) + 1])

RECURSIVE PadChars(_, _)
PadChars(n, digits) ==
  IF digits = 0 THEN <<>>
  ELSE Append(PadChars(n \div 10, digits - 1), Digit[(n % 10) + 1])

NaNText == <<"N", "a", "N">>
InfinityText == <<"I", "n", "f", "i", "n", "i", "t", "y">>

\* Number.prototype.toFixed(digits): the nearest decimal with that many
\* fraction digits, the larger one on a tie
toFixed(x, digits) ==
  IF IsNaN(x) THEN NaNText
  ELSE IF x.den = 0 THEN InfinityText
  ELSE LET whole == x.num \div x.den
           rest == Lowest(Frac(x.num % x.den, x.den))
           scaled == whole * Pow10(digits)
                     + (2 * rest.num * Pow10(digits) + rest.den)
                       \div (2 * rest.den)
       IN DecChars(scaled \div Pow10(digits)) \o <<".">>
          \o PadChars(scaled % Pow10(digits), digits)

RECURSIVE ParseDigits(_)
ParseDigits(chars) ==
  IF chars = <<>> THEN 0
  ELSE 10 * ParseDigits(SubSeq(chars, 1, Len(chars) - 1))
       + (CHOOSE v \in 0..9 : Digit[v + 1] = chars[Len(chars)])

\* parseFloat of a text that toFixed produced
parseFloat(chars) ==
  IF chars = NaNText THEN NaN
  ELSE IF chars = InfinityText THEN Frac(1, 0)
  ELSE LET dot == CHOOSE i \in 1..Len(chars) : chars[i] = "."
           fraction == SubSeq(chars, dot + 1, Len(chars))
       IN Frac(ParseDigits(SubSeq(chars, 1, dot - 1) \o fraction),
               Pow10(Len(fraction)))

----------------------------------------------------------------------------
(* Derived metrics *)

\* getWeaponRole with >= 40 in place of > 40
getWeaponRoleAtLeast(player) ==
  IF player.kills = 0 THEN "Rifler"
  ELSE IF FracLeq(Num(40), Times(Divide(Num(player.sniper_kills),
                                        Num(player.kills)), Num(100)))
  THEN "Sniper"
  ELSE "Rifler"

getWeaponRole(player) ==
  LET totalKills == player.kills
      sniperKills == player.sniper_kills
  IN IF totalKills = 0 THEN "Rifler"
     ELSE LET sniperPercentage ==
                Times(Divide(Num(sniperKills), Num(totalKills)), Num(100))
          IN IF FracLess(Num(40), sniperPercentage) THEN "Sniper"
             ELSE "Rifler"

----------------------------------------------------------------------------
(* Array helpers *)

\* array.find(pred) for pred = "steam_id.toString() === id" on records
FindData(data, id) ==
  LET hits == {j \in 1..Len(data) : steamIdToString(data[j].steam_id) = id}
  IN IF hits = {} THEN None
     ELSE [set |-> TRUE,
           value |-> data[CHOOSE j \in hits : \A k \in hits : j <= k]]

\* allPlayers.find(p => p.steam_id === id)
FindPlayer(players, id) ==
  LET hits == {j \in 1..Len(players) : players[j].steam_id = id}
  IN IF hits = {} THEN None
     ELSE [set |-> TRUE,
           value |-> players[CHOOSE j \in hits : \A k \in hits : j <= k]]

\* Array.prototype.sort with a consistent comparator: negative holds the
\* index pairs <<i, j>> with compare(arr[i], arr[j]) < 0; elements that
\* compare equal keep their order (stable)
StableSort(arr, negative) ==
  LET n == Len(arr)
      rank(i) == Cardinality({j \in 1..n :
                    \/ <<j, i>> \in negative
                    \/ (<<i, j>> \notin negative /\ j < i)}) + 1
  IN [k \in 1..n |-> arr[CHOOSE i \in 1..n : rank(i) = k]]

IndexPairs(arr) == (1..Len(arr)) \X (1..Len(arr))

----------------------------------------------------------------------------
(* Duel reconciliation *)

\* DuelStep with the fallback entry read without swapping its two sides
DuelStepUnswapped(acc, match, p1Id, p2Id) ==
  LET p1Data == FindData(match.data, p1Id)
      p2Data == FindData(match.data, p2Id)
  IN IF p1Data.set /\ p2Data.set
     THEN LET commonData == [match |-> match,
                             p1Role |-> getWeaponRole(p1Data.value),
                             p2Role |-> getWeaponRole(p2Data.value),
                             p1Team |-> p1Data.value.last_team_name,
                             p2Team |-> p2Data.value.last_team_name]
          IN IF p2Id \in DOMAIN p1Data.value.duels
             THEN LET p1Duel == p1Data.value.duels[p2Id]
                  IN [p1Kills |-> acc.p1Kills + p1Duel.kills,
                      p2Kills |-> acc.p2Kills + p1Duel.deaths,
                      history |-> Append(acc.history,
                         commonData @@ [p1Kills |-> p1Duel.kills,
                                        p2Kills |-> p1Duel.deaths])]
             ELSE IF p1Id \in DOMAIN p2Data.value.duels
             THEN LET p2Duel == p2Data.value.duels[p1Id]
                  IN [p1Kills |-> acc.p1Kills + p2Duel.kills,
                      p2Kills |-> acc.p2Kills + p2Duel.deaths,
                      history |-> Append(acc.history,
                         commonData @@ [p1Kills |-> p2Duel.kills,
                                        p2Kills |-> p2Duel.deaths])]
             ELSE acc
     ELSE acc

\* DuelStep without the test that both players took part in the match
DuelStepOneSided(acc, match, p1Id, p2Id) ==
  LET p1Data == FindData(match.data, p1Id)
      p2Data == FindData(match.data, p2Id)
      commonData == [match |-> match, p1Role |-> "Rifler",
                     p2Role |-> "Rifler", p1Team |-> "", p2Team |-> ""]
  IN IF p1Data.set /\ p2Id \in DOMAIN p1Data.value.duels
     THEN LET p1Duel == p1Data.value.duels[p2Id]
          IN [p1Kills |-> acc.p1Kills + p1Duel.kills,
              p2Kills |-> acc.p2Kills + p1Duel.deaths,
              history |-> Append(acc.history,
                 commonData @@ [p1Kills |-> p1Duel.kills,
                                p2Kills |-> p1Duel.deaths])]
     ELSE IF p2Data.set /\ p1Id \in DOMAIN p2Data.value.duels
     THEN LET p2Duel == p2Data.value.duels[p1Id]
          IN [p1Kills |-> acc.p1Kills + p2Duel.deaths,
              p2Kills |-> acc.p2Kills + p2Duel.kills,
              history |-> Append(acc.history,
                 commonData @@ [p1Kills |-> p2Duel.deaths,
                                p2Kills |-> p2Duel.kills])]
     ELSE acc

\* DuelStep whose fallback takes both figures from the deaths of the entry
DuelStepFallbackDeaths(acc, match, p1Id, p2Id) ==
  LET p1Data == FindData(match.data, p1Id)
      p2Data == FindData(match.data, p2Id)
  IN IF p1Data.set /\ p2Data.set
     THEN LET commonData == [match |-> match,
                             p1Role |-> getWeaponRole(p1Data.value),
                             p2Role |-> getWeaponRole(p2Data.value),
                             p1Team |-> p1Data.value.last_team_name,
                             p2Team |-> p2Data.value.last_team_name]
          IN IF p2Id \in DOMAIN p1Data.value.duels
             THEN LET p1Duel == p1Data.value.duels[p2Id]
                  IN [p1Kills |-> acc.p1Kills + p1Duel.kills,
                      p2Kills |-> acc.p2Kills + p1Duel.deaths,
                      history |-> Append(acc.history,
                         commonData @@ [p1Kills |-> p1Duel.kills,
                                        p2Kills |-> p1Duel.deaths])]
             ELSE IF p1Id \in DOMAIN p2Data.value.duels
             THEN LET p2Duel == p2Data.value.duels[p1Id]
                  IN [p1Kills |-> acc.p1Kills + p2Duel.deaths,
                      p2Kills |-> acc.p2Kills + p2Duel.deaths,
                      history |-> Append(acc.history,
                         commonData @@ [p1Kills |-> p2Duel.deaths,
                                        p2Kills |-> p2Duel.deaths])]
             ELSE acc
     ELSE acc

\* body of matches.forEach in duelStats
DuelStep(acc, match, p1Id, p2Id) ==
  LET p1Data == FindData(match.data, p1Id)
      p2Data == FindData(match.data, p2Id)
  IN IF p1Data.set /\ p2Data.set
     THEN LET commonData == [match |-> match,
                             p1Role |-> getWeaponRole(p1Data.value),
                             p2Role |-> getWeaponRole(p2Data.value),
                             p1Team |-> p1Data.value.last_team_name,
                             p2Team |-> p2Data.value.last_team_name]
          IN IF p2Id \in DOMAIN p1Data.value.duels
             THEN LET p1Duel == p1Data.value.duels[p2Id]
                  IN [p1Kills |-> acc.p1Kills + p1Duel.kills,
                      p2Kills |-> acc.p2Kills + p1Duel.deaths,
                      history |-> Append(acc.history,
                         commonData @@ [p1Kills |-> p1Duel.kills,
                                        p2Kills |-> p1Duel.deaths])]
             ELSE IF p1Id \in DOMAIN p2Data.value.duels
             THEN LET p2Duel == p2Data.value.duels[p1Id]
                  IN [p1Kills |-> acc.p1Kills + p2Duel.deaths,
                      p2Kills |-> acc.p2Kills + p2Duel.kills,
                      history |-> Append(acc.history,
                         commonData @@ [p1Kills |-> p2Duel.deaths,
                                        p2Kills |-> p2Duel.kills])]
             ELSE acc
     ELSE acc

RECURSIVE DuelFold(_, _, _, _)
DuelFold(acc, ms, p1Id, p2Id) ==
  IF ms = <<>> THEN acc
  ELSE DuelFold(DuelStep(acc, Head(ms), p1Id, p2Id), Tail(ms), p1Id, p2Id)

\* the comparator with its operands exchanged: oldest match first
OlderFirst(a, b) == a.match.timestamp - b.match.timestamp < 0

\* history.sort((a, b) => b.match.timestamp - a.match.timestamp)
NewerFirst(a, b) == b.match.timestamp - a.match.timestamp < 0

\* computeDuelStats without the test that both ids resolve to an entry
computeDuelStatsUnresolved(p1Id, p2Id, players, ms) ==
  IF p1Id = Null \/ p2Id = Null THEN None
  ELSE LET acc == DuelFold([p1Kills |-> 0, p2Kills |-> 0, history |-> <<>>],
                           ms, p1Id, p2Id)
       IN [set |-> TRUE, p1 |-> FindPlayer(players, p1Id),
           p2 |-> FindPlayer(players, p2Id),
           p1Kills |-> acc.p1Kills, p2Kills |-> acc.p2Kills,
           history |-> acc.history]

\* the useMemo body of Duels.duelStats
computeDuelStats(p1Id, p2Id, players, ms) ==
  IF p1Id = Null \/ p2Id = Null THEN None
  ELSE LET p1 == FindPlayer(players, p1Id)
           p2 == FindPlayer(players, p2Id)
       IN IF ~p1.set \/ ~p2.set THEN None
          ELSE LET acc == DuelFold([p1Kills |-> 0, p2Kills |-> 0,
                                    history |-> <<>>], ms, p1Id, p2Id)
               IN [set |-> TRUE, p1 |-> p1.value, p2 |-> p2.value,
                   p1Kills |-> acc.p1Kills, p2Kills |-> acc.p2Kills,
                   history |-> StableSort(acc.history,
                      {x \in IndexPairs(acc.history) :
                         NewerFirst(acc.history[x[1]], acc.history[x[2]])})]

\* the player ids offered by a PlayerSelect: allPlayers without otherId
SelectOptions(otherId) ==
  {allPlayers[i].steam_id : i \in 1..Len(allPlayers)} \ {otherId}

setPlayer1Id(id) ==
  /\ id \in SelectOptions(player2Id)
  /\ player1Id' = id
  /\ duelStats' = computeDuelStats(id, player2Id, allPlayers, matches)
  /\ UNCHANGED <<storeVars, teamVars, player2Id, view>>

setPlayer2Id(id) ==
  /\ id \in SelectOptions(player1Id)
  /\ player2Id' = id
  /\ duelStats' = computeDuelStats(player1Id, id, allPlayers, matches)
  /\ UNCHANGED <<storeVars, teamVars, player1Id, view>>

----------------------------------------------------------------------------
(* Team balancer *)

\* lobbyPlayers.length < 10 in addPlayerToLobby
LobbyCap == 10

\* manualAssignments[id]; "" stands for undefined
Assigned(assignments, id) ==
  IF id \in DOMAIN assignments THEN assignments[id] ELSE ""

\* delete newAssignments[steamId]
Without(assignments, steamId) ==
  [id \in DOMAIN assignments \ {steamId} |-> assignments[id]]

Rating(p) == Frac(p.hltv_3_0_score, p.matches)

\* team.reduce((sum, p) => sum + p.hltv_3_0_score / p.matches, 0)
RECURSIVE TeamRating(_)
TeamRating(team) ==
  IF team = <<>> THEN Frac(0, 1)
  ELSE FracAdd(TeamRating(SubSeq(team, 1, Len(team) - 1)),
               Rating(team[Len(team)]))

\* ActivePlayers without the bench filter
ActivePlayersWithBench(lobby, assignments, players) ==
  LET found == [i \in 1..Len(lobby) |-> FindPlayer(players, lobby[i])]
      defined == SelectSeq(found, LAMBDA f : f.set)
  IN [i \in 1..Len(defined) |-> defined[i].value]

\* lobbyPlayers.filter(not bench).map(find).filter(defined)
ActivePlayers(lobby, assignments, players) ==
  LET kept == SelectSeq(lobby, LAMBDA id : Assigned(assignments, id) # "bench")
      found == [i \in 1..Len(kept) |-> FindPlayer(players, kept[i])]
      defined == SelectSeq(found, LAMBDA f : f.set)
  IN [i \in 1..Len(defined) |-> defined[i].value]

\* activePlayers.filter(p => manualAssignments[p.steam_id] === team)
PinnedTo(active, assignments, team) ==
  SelectSeq(active, LAMBDA p : Assigned(assignments, p.steam_id) = team)

\* comparator (b.score / b.matches) - (a.score / a.matches) < 0
HigherRated(a, b) == FracLess(Rating(b), Rating(a))

\* SortedPool with the comparator reversed
SortedPoolAscending(active, assignments) ==
  LET pool == SelectSeq(active,
                        LAMBDA p : Assigned(assignments, p.steam_id) = "")
  IN StableSort(pool, {x \in IndexPairs(pool) :
                         HigherRated(pool[x[2]], pool[x[1]])})

\* SortedPool that takes every active player as a candidate
SortedPoolOfAll(active, assignments) ==
  StableSort(active, {x \in IndexPairs(active) :
                        HigherRated(active[x[1]], active[x[2]])})

\* activePlayers.filter(p => !manualAssignments[p.steam_id]).sort(...)
SortedPool(active, assignments) ==
  LET pool == SelectSeq(active,
                        LAMBDA p : Assigned(assignments, p.steam_id) = "")
  IN StableSort(pool, {x \in IndexPairs(pool) :
                         HigherRated(pool[x[1]], pool[x[2]])})

\* Place without the "team2 is already full" alternative
PlaceByRatingOnly(teams, player, teamSize) ==
  IF /\ Len(teams.team1) < teamSize
     /\ FracLeq(TeamRating(teams.team1), TeamRating(teams.team2))
  THEN [teams EXCEPT !.team1 = Append(@, player)]
  ELSE IF Len(teams.team2) < teamSize
  THEN [teams EXCEPT !.team2 = Append(@, player)]
  ELSE teams

\* Place without the test that team1 still has room
PlaceNoCapacity(teams, player, teamSize) ==
  IF \/ FracLeq(TeamRating(teams.team1), TeamRating(teams.team2))
     \/ Len(teams.team2) >= teamSize
  THEN [teams EXCEPT !.team1 = Append(@, player)]
  ELSE IF Len(teams.team2) < teamSize
  THEN [teams EXCEPT !.team2 = Append(@, player)]
  ELSE teams

\* Place that puts the player at the front of the team
PlacePrepending(teams, player, teamSize) ==
  LET team1Rating == TeamRating(teams.team1)
      team2Rating == TeamRating(teams.team2)
  IN IF /\ Len(teams.team1) < teamSize
        /\ (FracLeq(team1Rating, team2Rating) \/ Len(teams.team2) >= teamSize)
     THEN [teams EXCEPT !.team1 = <<player>> \o @]
     ELSE IF Len(teams.team2) < teamSize
     THEN [teams EXCEPT !.team2 = <<player>> \o @]
     ELSE teams

\* Place whose second test is not an else branch of the first
PlaceWithoutElse(teams, player, teamSize) ==
  LET team1Rating == TeamRating(teams.team1)
      team2Rating == TeamRating(teams.team2)
      first == IF /\ Len(teams.team1) < teamSize
                  /\ \/ FracLeq(team1Rating, team2Rating)
                     \/ Len(teams.team2) >= teamSize
               THEN [teams EXCEPT !.team1 = Append(@, player)]
               ELSE teams
  IN IF Len(teams.team2) < teamSize
     THEN [first EXCEPT !.team2 = Append(@, player)]
     ELSE first

\* Place that prefers team1 while it is the higher rated team
PlaceRicherFirst(teams, player, teamSize) ==
  LET team1Rating == TeamRating(teams.team1)
      team2Rating == TeamRating(teams.team2)
  IN IF /\ Len(teams.team1) < teamSize
        /\ (FracLeq(team2Rating, team1Rating) \/ Len(teams.team2) >= teamSize)
     THEN [teams EXCEPT !.team1 = Append(@, player)]
     ELSE IF Len(teams.team2) < teamSize
     THEN [teams EXCEPT !.team2 = Append(@, player)]
     ELSE teams

\* body of pool.forEach
Place(teams, player, teamSize) ==
  LET team1Rating == TeamRating(teams.team1)
      team2Rating == TeamRating(teams.team2)
  IN IF /\ Len(teams.team1) < teamSize
        /\ (FracLeq(team1Rating, team2Rating) \/ Len(teams.team2) >= teamSize)
     THEN [teams EXCEPT !.team1 = Append(@, player)]
     ELSE IF Len(teams.team2) < teamSize
     THEN [teams EXCEPT !.team2 = Append(@, player)]
     ELSE teams

RECURSIVE PlaceAll(_, _, _)
PlaceAll(teams, pool, teamSize) ==
  IF pool = <<>> THEN teams
  ELSE PlaceAll(Place(teams, Head(pool), teamSize), Tail(pool), teamSize)

\* generateTeams up to its state update: the validation and the greedy pass
balance(lobby, assignments, players) ==
  LET activePlayers == ActivePlayers(lobby, assignments, players)
  IN IF Len(activePlayers) % 2 # 0 \/ Len(activePlayers) < 2
     THEN [ok |-> FALSE]
     ELSE LET teamSize == Len(activePlayers) \div 2
              team1 == PinnedTo(activePlayers, assignments, "team1")
              team2 == PinnedTo(activePlayers, assignments, "team2")
              pool == SortedPool(activePlayers, assignments)
              teams == PlaceAll([team1 |-> team1, team2 |-> team2], pool,
                                teamSize)
          IN [ok |-> TRUE, team1 |-> teams.team1, team2 |-> teams.team2]

\* addPlayerToLobby without the test of the lobby length
addPlayerToLobbyUncapped(steamId) ==
  /\ lobbyPlayers' =
       IF steamId \notin Range(lobbyPlayers)
       THEN Append(lobbyPlayers, steamId)
       ELSE lobbyPlayers
  /\ teamsOp' = "none"
  /\ UNCHANGED <<storeVars, duelVars, manualAssignments, generatedTeams, view>>

addPlayerToLobby(steamId) ==
  /\ lobbyPlayers' =
       IF steamId \notin Range(lobbyPlayers) /\ Len(lobbyPlayers) < LobbyCap
       THEN Append(lobbyPlayers, steamId)
       ELSE lobbyPlayers
  /\ teamsOp' = "none"
  /\ UNCHANGED <<storeVars, duelVars, manualAssignments, generatedTeams, view>>

removePlayerFromLobby(steamId) ==
  /\ lobbyPlayers' = SelectSeq(lobbyPlayers, LAMBDA id : id # steamId)
  /\ manualAssignments' = Without(manualAssignments, steamId)
  /\ teamsOp' = "none"
  /\ UNCHANGED <<storeVars, duelVars, generatedTeams, view>>

assignPlayer(steamId, team) ==
  /\ manualAssignments' =
       IF team = Null THEN Without(manualAssignments, steamId)
       ELSE (steamId :> team) @@ manualAssignments
  /\ teamsOp' = "none"
  /\ UNCHANGED <<storeVars, duelVars, lobbyPlayers, generatedTeams, view>>

\* the Clear All button, shown while the lobby is not empty
clearAll ==
  /\ Len(lobbyPlayers) > 0
  /\ lobbyPlayers' = <<>>
  /\ manualAssignments' = [id \in {} |-> "bench"]
  /\ generatedTeams' = None
  /\ teamsOp' = "none"
  /\ UNCHANGED <<storeVars, duelVars, view>>

\* the Generate Teams button, disabled while the lobby has fewer than 2 ids
generateTeams ==
  /\ Len(lobbyPlayers) >= 2
  /\ LET result == balance(lobbyPlayers, manualAssignments, allPlayers)
     IN IF result.ok
        THEN /\ generatedTeams' = [set |-> TRUE, team1 |-> result.team1,
                                   team2 |-> result.team2]
             /\ teamsOp' = "ok"
        ELSE /\ generatedTeams' = generatedTeams
             /\ teamsOp' = "alert"
  /\ UNCHANGED <<storeVars, duelVars, lobbyPlayers, manualAssignments, view>>

\* the ids the lobby column offers for removal and assignment
LobbyDetails ==
  {id \in Range(lobbyPlayers) : FindPlayer(allPlayers, id).set}

\* the ids the player pool column offers for adding
PoolOffers ==
  {allPlayers[i].steam_id : i \in 1..Len(allPlayers)} \ Range(lobbyPlayers)

----------------------------------------------------------------------------
(* Match store *)

\* AddMatchTo with the filter predicate inverted
AddMatchToInverted(prev, match) ==
  Append(SelectSeq(prev, LAMBDA m : m.id = match.id), match)

\* prev.filter(m => m.id !== match.id) then append
AddMatchTo(prev, match) ==
  Append(SelectSeq(prev, LAMBDA m : m.id # match.id), match)

\* Map.set: an existing key keeps its position and takes the new value
MapSet(entries, m) ==
  IF \E i \in 1..Len(entries) : entries[i].id = m.id
  THEN [i \in 1..Len(entries) |->
          IF entries[i].id = m.id THEN m ELSE entries[i]]
  ELSE Append(entries, m)

RECURSIVE MapSetAll(_, _)
MapSetAll(entries, ms) ==
  IF ms = <<>> THEN entries
  ELSE MapSetAll(MapSet(entries, Head(ms)), Tail(ms))

\* new Map(prev.map(...)); newMatches.forEach(map.set); Array.from(values)
AddMatchesTo(prev, newMatches) ==
  MapSetAll(MapSetAll(<<>>, prev), newMatches)

\* DeleteMatchFrom with the filter predicate inverted
DeleteMatchKeepOnly(prev, matchId) ==
  SelectSeq(prev, LAMBDA m : m.id = matchId)

DeleteMatchFrom(prev, matchId) ==
  SelectSeq(prev, LAMBDA m : m.id # matchId)

DeleteMatchesFrom(prev, matchIds) ==
  SelectSeq(prev, LAMBDA m : m.id \notin Range(matchIds))

\* SetMatches with a cached aggregate that is not recomputed
SetMatchesStale(next) ==
  /\ Len(next) <= MaxMatches
  /\ matches' = next
  /\ allPlayers' = allPlayers
  /\ duelStats' = computeDuelStats(player1Id, player2Id, allPlayers, next)
  /\ UNCHANGED <<player1Id, player2Id, view>>

\* setMatches(next) followed by the useMemo recomputations of allPlayers and
\* of duelStats
SetMatches(next) ==
  /\ Len(next) <= MaxMatches
  /\ matches' = next
  /\ allPlayers' = aggregatePlayerStats(next)
  /\ duelStats' = computeDuelStats(player1Id, player2Id,
                                   aggregatePlayerStats(next), next)
  /\ UNCHANGED <<player1Id, player2Id, view>>

\* the object store after store.put(match): keyPath id, an existing key is
\* overwritten
DbPut(store, match) == (match.id :> match) @@ store

\* matches.forEach(m => store.put(m))
RECURSIVE DbPutAll(_, _)
DbPutAll(store, ms) ==
  IF ms = <<>> THEN store
  ELSE DbPutAll(DbPut(store, Head(ms)), Tail(ms))

\* store.delete(id)
DbDelete(store, id) == [k \in DOMAIN store \ {id} |-> store[k]]

\* ids.forEach(id => store.delete(id))
DbDeleteAll(store, ids) == [k \in DOMAIN store \ Range(ids) |-> store[k]]

\* store.clear()
DbClear == [k \in {} |-> Match("", 0, <<>>)]

\* The five operations with nothing else in flight: the persistence step and
\* the state update that follows it, as one step.

addMatch(match) ==
  /\ dbQueue = <<>>
  /\ db' = DbPut(db, match)
  /\ UNCHANGED dbQueue
  /\ SetMatches(AddMatchTo(matches, match))
  /\ lastOp' = [kind |-> "addMatch",
                 keeps |-> \A i \in 1..Len(matches) : matches[i].id # match.id]
  /\ undo' = [set |-> TRUE, id |-> match.id,
              fresh |-> \A i \in 1..Len(matches) : matches[i].id # match.id,
              players |-> allPlayers]
  /\ roundTrip' = None
  /\ UNCHANGED <<lobbyPlayers, manualAssignments, generatedTeams>>
  /\ teamsOp' = "none"

addMatches(newMatches) ==
  /\ dbQueue = <<>>
  /\ db' = DbPutAll(db, newMatches)
  /\ UNCHANGED dbQueue
  /\ SetMatches(AddMatchesTo(matches, newMatches))
  /\ lastOp' = [kind |-> "addMatches",
                 keeps |-> /\ DistinctIds(matches)
                           /\ \A i \in 1..Len(matches) :
                                \A j \in 1..Len(newMatches) :
                                  matches[i].id # newMatches[j].id]
  /\ undo' = None
  /\ roundTrip' = None
  /\ UNCHANGED <<lobbyPlayers, manualAssignments, generatedTeams>>
  /\ teamsOp' = "none"

deleteMatch(matchId) ==
  /\ dbQueue = <<>>
  /\ db' = DbDelete(db, matchId)
  /\ UNCHANGED dbQueue
  /\ SetMatches(DeleteMatchFrom(matches, matchId))
  /\ lastOp' = [kind |-> "deleteMatch"]
  /\ roundTrip' = IF undo.set /\ undo.id = matchId THEN undo ELSE None
  /\ undo' = None
  /\ UNCHANGED <<lobbyPlayers, manualAssignments, generatedTeams>>
  /\ teamsOp' = "none"

deleteMatches(matchIds) ==
  /\ dbQueue = <<>>
  /\ db' = DbDeleteAll(db, matchIds)
  /\ UNCHANGED dbQueue
  /\ SetMatches(DeleteMatchesFrom(matches, matchIds))
  /\ lastOp' = [kind |-> "deleteMatches"]
  /\ undo' = None
  /\ roundTrip' = None
  /\ UNCHANGED <<lobbyPlayers, manualAssignments, generatedTeams>>
  /\ teamsOp' = "none"

restoreData(data) ==
  /\ dbQueue = <<>>
  /\ db' = DbPutAll(DbClear, data)
  /\ UNCHANGED dbQueue
  /\ SetMatches(data)
  /\ lastOp' = [kind |-> "restoreData"]
  /\ undo' = None
  /\ roundTrip' = None
  /\ UNCHANGED <<lobbyPlayers, manualAssignments, generatedTeams>>
  /\ teamsOp' = "none"

\* The same operations step by step.  Every dbOps function opens a readwrite
\* transaction on the one object store when it is called; IndexedDB runs such
\* transactions one after the other in the order of their creation.  The
\* promise an operation awaits resolves when its transaction has run, and
\* the rest of the operation follows before the next transaction starts.

Issue(request) ==
  /\ Len(dbQueue) < MaxPending
  /\ dbQueue' = Append(dbQueue, request)
  /\ UNCHANGED <<matches, allPlayers, lastOp, undo, roundTrip, db>>
  /\ UNCHANGED <<teamVars, duelVars, view>>

\* the transaction at the head of the queue has run and left the store as
\* after; queued is what the awaiting operation issues next
Ran(op, after, queued) ==
  /\ dbQueue # <<>>
  /\ Head(dbQueue).op = op
  /\ db' = after
  /\ dbQueue' = Tail(dbQueue) \o queued
  /\ UNCHANGED <<lastOp, undo, roundTrip, teamVars>>

\* addMatch up to await dbOps.add(match)
addMatchIssued(match) ==
  /\ Issue([op |-> "add", match |-> match])

\* store.put(match) succeeded; setMatches(prev => ...)
addMatchPersisted ==
  LET match == Head(dbQueue).match
  IN /\ Ran("add", DbPut(db, match), <<>>)
     /\ SetMatches(AddMatchTo(matches, match))

\* addMatches up to await dbOps.addBulk(newMatches)
addMatchesIssued(newMatches) ==
  /\ Issue([op |-> "addBulk", matches |-> newMatches])

addMatchesPersisted ==
  LET newMatches == Head(dbQueue).matches
  IN /\ Ran("addBulk", DbPutAll(db, newMatches), <<>>)
     /\ SetMatches(AddMatchesTo(matches, newMatches))

\* deleteMatch up to await dbOps.delete(matchId)
deleteMatchIssued(matchId) ==
  /\ Issue([op |-> "delete", id |-> matchId])

deleteMatchPersisted ==
  LET matchId == Head(dbQueue).id
  IN /\ Ran("delete", DbDelete(db, matchId), <<>>)
     /\ SetMatches(DeleteMatchFrom(matches, matchId))

\* deleteMatches up to await dbOps.deleteBulk(matchIds)
deleteMatchesIssued(matchIds) ==
  /\ Issue([op |-> "deleteBulk", ids |-> matchIds])

deleteMatchesPersisted ==
  LET matchIds == Head(dbQueue).ids
  IN /\ Ran("deleteBulk", DbDeleteAll(db, matchIds), <<>>)
     /\ SetMatches(DeleteMatchesFrom(matches, matchIds))

\* restoreData up to await dbOps.clear()
restoreDataIssued(data) ==
  /\ Issue([op |-> "clear", data |-> data])

\* the store is cleared; restoreData goes on to await dbOps.addBulk(data),
\* whose transaction is created now, behind those already waiting
restoreDataCleared ==
  /\ Ran("clear", DbClear,
         <<[op |-> "restoreBulk", matches |-> Head(dbQueue).data]>>)
  /\ UNCHANGED <<matches, allPlayers, duelVars, view>>

\* the bulk put of restoreData has run; setMatches(data)
restoreDataPersisted ==
  LET data == Head(dbQueue).matches
  IN /\ Ran("restoreBulk", DbPutAll(db, data), <<>>)
     /\ SetMatches(data)

----------------------------------------------------------------------------
(* Views: the figures the components compute when they render *)

\* terms.reduce((acc, x) => acc + x, 0)
RECURSIVE ReduceSum(_)
ReduceSum(terms) ==
  IF terms = <<>> THEN Num(0)
  ELSE Lowest(FracAdd(ReduceSum(SubSeq(terms, 1, Len(terms) - 1)),
                      Lowest(terms[Len(terms)])))

\* the reducer terms of SortableTable.leagueAverages
LeagueRating(p) ==
  IF p.matches # 0 THEN Divide(Score(p), Num(p.matches)) ELSE Num(0)

LeagueADR(p) ==
  IF p.rounds_played # 0
  THEN Divide(Num(p.damage_total), Num(p.rounds_played))
  ELSE Num(0)

LeagueKD(p) ==
  IF p.deaths # 0 THEN Divide(Num(p.kills), Num(p.deaths)) ELSE Num(p.kills)

leagueAverages(players) ==
  IF Len(players) = 0
  THEN [empty |-> TRUE]
  ELSE LET n == Num(Len(players))
           totalRating ==
             ReduceSum([i \in 1..Len(players) |-> LeagueRating(players[i])])
           totalADR ==
             ReduceSum([i \in 1..Len(players) |-> LeagueADR(players[i])])
           totalKD ==
             ReduceSum([i \in 1..Len(players) |-> LeagueKD(players[i])])
       IN [empty |-> FALSE,
           rating |-> toFixed(Divide(totalRating, n), 2),
           adr |-> toFixed(Divide(totalADR, n), 1),
           kd |-> toFixed(Divide(totalKD, n), 2)]

\* the constants of a leaderboard row
RowKPR(player) ==
  IF player.rounds_played # 0
  THEN Divide(Num(player.kills), Num(player.rounds_played))
  ELSE Num(0)

RowADR(player) ==
  IF player.rounds_played # 0
  THEN Divide(Num(player.damage_total), Num(player.rounds_played))
  ELSE Num(0)

RowRating(player) ==
  IF player.matches # 0 THEN Divide(Score(player), Num(player.matches))
  ELSE Num(0)

\* RowKD with the kills of a player without deaths shown as 0
RowKDZero(player) ==
  IF player.deaths > 0 THEN Divide(Num(player.kills), Num(player.deaths))
  ELSE Num(0)

RowKD(player) ==
  IF player.deaths > 0 THEN Divide(Num(player.kills), Num(player.deaths))
  ELSE Num(player.kills)

\* the DPR cell of the expanded row: (deaths / rounds_played || 0).toFixed(2)
RowDPR(player) ==
  toFixed(OrElse(Divide(Num(player.deaths), Num(player.rounds_played)),
                 Num(0)), 2)

SortableTableRow(player) ==
  [player |-> player, kpr |-> RowKPR(player), adr |-> RowADR(player),
   rating |-> RowRating(player), kd |-> RowKD(player),
   role |-> getWeaponRole(player), kprText |-> toFixed(RowKPR(player), 2),
   dpr |-> RowDPR(player)]

renderSortableTable ==
  /\ view' = [kind |-> "SortableTable",
              leagueAverages |-> leagueAverages(allPlayers),
              rows |-> [i \in 1..Len(allPlayers) |->
                          SortableTableRow(allPlayers[i])]]
  /\ UNCHANGED <<storeVars, teamVars, duelVars>>

\* playerAggregatedStats over the first match of the player alone
playerAggregatedStatsFirstMatch(ms, steamId) ==
  LET playerMatches == SelectSeq(ms, LAMBDA m : FindData(m.data, steamId).set)
      aggregated == aggregatePlayerStats(
        IF playerMatches = <<>> THEN <<>> ELSE <<Head(playerMatches)>>)
  IN FindPlayer(aggregated, steamId)

\* PlayerProfile.playerAggregatedStats
playerAggregatedStats(ms, steamId) ==
  LET playerMatches == SelectSeq(ms, LAMBDA m : FindData(m.data, steamId).set)
      aggregated == aggregatePlayerStats(playerMatches)
  IN FindPlayer(aggregated, steamId)

ProfileRating(stats) ==
  IF stats.matches > 0 THEN toFixed(Divide(Score(stats), Num(stats.matches)), 2)
  ELSE <<"0", ".", "0", "0">>

ProfileKD(stats) ==
  IF stats.deaths > 0
  THEN toFixed(Divide(Num(stats.kills), Num(stats.deaths)), 2)
  ELSE toFixed(Num(stats.kills), 2)

ProfileADR(stats) ==
  IF stats.rounds_played > 0
  THEN toFixed(Divide(Num(stats.damage_total), Num(stats.rounds_played)), 1)
  ELSE <<"0", ".", "0">>

ProfileKPR(stats) ==
  IF stats.rounds_played > 0
  THEN toFixed(Divide(Num(stats.kills), Num(stats.rounds_played)), 2)
  ELSE <<"0", ".", "0", "0">>

ProfileAPR(stats) ==
  IF stats.rounds_played > 0
  THEN toFixed(Divide(Num(stats.assists), Num(stats.rounds_played)), 2)
  ELSE <<"0", ".", "0", "0">>

ProfileDPR(stats) ==
  IF stats.rounds_played > 0
  THEN toFixed(Divide(Num(stats.deaths), Num(stats.rounds_played)), 2)
  ELSE <<"0", ".", "0", "0">>

calcScore(val, target) ==
  MathMin(Num(100), MathRound(Times(Divide(val, target), Num(100))))

firepowerScore(stats) == calcScore(parseFloat(ProfileADR(stats)), Num(100))

entryScore(stats) ==
  IF stats.opening_attempts > 0
  THEN calcScore(Divide(Num(stats.opening_kills),
                        Num(stats.opening_attempts)), Frac(6, 10))
  ELSE Num(0)

openingScore(stats) ==
  calcScore(Divide(Num(stats.opening_kills), Num(stats.matches)), Frac(35, 10))

tradingScore(stats) ==
  calcScore(Divide(Num(stats.trade_kills), Num(stats.matches)), Num(3))

clutchingScore(stats) ==
  calcScore(Divide(Num(stats.clutches_won), Num(stats.matches)), Num(1))

snipingScore(stats) ==
  calcScore(Divide(Num(stats.sniper_kills), Num(stats.kills)), Frac(5, 10))

utilityScore(stats) ==
  calcScore(Divide(Num(stats.utility_damage), Num(stats.matches)), Num(300))

renderPlayerProfile(steamId) ==
  /\ LET found == playerAggregatedStats(matches, steamId)
     IN view' =
          IF ~found.set
          THEN [kind |-> "PlayerProfile", steamId |-> steamId,
                available |-> FALSE]
          ELSE LET stats == found.value
               IN [kind |-> "PlayerProfile", steamId |-> steamId,
                   available |-> TRUE, stats |-> stats,
                   rating |-> ProfileRating(stats), kd |-> ProfileKD(stats),
                   adr |-> ProfileADR(stats), kpr |-> ProfileKPR(stats),
                   apr |-> ProfileAPR(stats), dpr |-> ProfileDPR(stats),
                   scores |-> [Firepower |-> firepowerScore(stats),
                               Entry |-> entryScore(stats),
                               Opening |-> openingScore(stats),
                               Trading |-> tradingScore(stats),
                               Clutching |-> clutchingScore(stats),
                               Sniping |-> snipingScore(stats),
                               Utility |-> utilityScore(stats)]]
  /\ UNCHANGED <<storeVars, teamVars, duelVars>>

\* [...match.data].sort((a, b) => b.kills - a.kills)
sortedScoreboard(match) ==
  StableSort(match.data, {x \in IndexPairs(match.data) :
                            match.data[x[2]].kills - match.data[x[1]].kills < 0})

\* the ADR cell of a scoreboard row
ScoreboardADR(p) ==
  toFixed(Divide(Num(p.damage_total), Num(p.rounds_played)), 1)

ScoreboardRow(p) ==
  [player |-> p, adr |-> ScoreboardADR(p), rating |-> toFixed(Score(p), 2)]

renderMatchViewer(match) ==
  /\ match \in Range(matches)
  /\ view' = [kind |-> "MatchViewer", match |-> match,
              scoreboard |-> [i \in 1..Len(match.data) |->
                                ScoreboardRow(sortedScoreboard(match)[i])]]
  /\ UNCHANGED <<storeVars, teamVars, duelVars>>

\* the statFn entries of Duels.overallStatsConfig
DuelRating(p) == toFixed(Divide(Score(p), Num(p.matches)), 2)

DuelKD(p) ==
  toFixed(IF p.deaths > 0 THEN Divide(Num(p.kills), Num(p.deaths))
          ELSE Num(p.kills), 2)

DuelADR(p) ==
  toFixed(IF p.rounds_played > 0
          THEN Divide(Num(p.damage_total), Num(p.rounds_played))
          ELSE Num(0), 1)

OverallStats(p) ==
  [player |-> p, rating |-> DuelRating(p), kd |-> DuelKD(p),
   adr |-> DuelADR(p)]

\* the comparison panel of Duels, rendered while duelStats is not null
renderDuels ==
  /\ duelStats.set
  /\ view' = [kind |-> "Duels", p1 |-> OverallStats(duelStats.p1),
              p2 |-> OverallStats(duelStats.p2)]
  /\ UNCHANGED <<storeVars, teamVars, duelVars>>

----------------------------------------------------------------------------
(* Specification of the store *)

TeamInit ==
  /\ lobbyPlayers = <<>>
  /\ manualAssignments = [id \in {} |-> "bench"]
  /\ generatedTeams = None
  /\ teamsOp = "none"

DuelInit ==
  /\ player1Id = Null
  /\ player2Id = Null
  /\ duelStats = None

ViewInit == view = [kind |-> "none"]

StoreInit(ms) ==
  /\ matches = ms
  /\ allPlayers = aggregatePlayerStats(ms)
  /\ lastOp = [kind |-> "init"]
  /\ undo = None
  /\ roundTrip = None
  /\ db = DbPutAll(DbClear, ms)
  /\ dbQueue = <<>>

Init == StoreInit(<<>>) /\ TeamInit /\ DuelInit /\ ViewInit

Next ==
  \/ \E match \in MatchPool : addMatch(match)
  \/ \E newMatches \in SeqsUpTo(MatchPool, MaxBulk) : addMatches(newMatches)
  \/ \E matchId \in MatchIds : deleteMatch(matchId)
  \/ \E matchIds \in SeqsUpTo(MatchIds, MaxBulk) : deleteMatches(matchIds)
  \/ \E data \in SeqsUpTo(MatchPool, MaxBulk) : restoreData(data)

Spec == Init /\ [][Next]_vars

----------------------------------------------------------------------------
(* Specification of the store with operations in flight: an operation can  *)
(* be called while earlier ones still await their persistence step         *)

AsyncMatches == {Match("m1", 30, Data1), Match("m2", 10, Data2)}

AsyncBulks ==
  {<<Match("m3", 20, Data3)>>, <<Match("m2", 10, Data2), Match("m3", 20, Data3)>>}

AsyncIdLists == {<<"m1", "m3">>}

InitAsync ==
  /\ \E ms \in {<<>>, <<Match("m1", 30, Data1)>>} : StoreInit(ms)
  /\ TeamInit
  /\ DuelInit
  /\ ViewInit

NextAsync ==
  \/ \E match \in AsyncMatches : addMatchIssued(match)
  \/ addMatchPersisted
  \/ \E newMatches \in AsyncBulks : addMatchesIssued(newMatches)
  \/ addMatchesPersisted
  \/ \E matchId \in {"m1", "m2"} : deleteMatchIssued(matchId)
  \/ deleteMatchPersisted
  \/ \E matchIds \in AsyncIdLists : deleteMatchesIssued(matchIds)
  \/ deleteMatchesPersisted
  \/ \E data \in AsyncBulks : restoreDataIssued(data)
  \/ restoreDataCleared
  \/ restoreDataPersisted

SpecAsync == InitAsync /\ [][NextAsync]_vars

----------------------------------------------------------------------------
(* Specification of the duel view over a loaded collection *)

\* the collections loadData can find in the database (keyPath id)
StoredCollections ==
  {ms \in SeqsUpTo(MatchPool, MaxMatches) : DistinctIds(ms)}

InitDuels ==
  /\ \E ms \in StoredCollections : StoreInit(ms)
  /\ TeamInit
  /\ DuelInit
  /\ ViewInit

NextDuels ==
  \/ \E id \in SteamIdStrs : setPlayer1Id(id)
  \/ \E id \in SteamIdStrs : setPlayer2Id(id)
  \/ \E matchId \in MatchIds : deleteMatch(matchId)

SpecDuels == InitDuels /\ [][NextDuels]_vars

----------------------------------------------------------------------------
(* Specification of the views over a loaded collection *)

ViewCollections ==
  {ms \in SeqsUpTo(ViewPool, MaxMatches) : DistinctIds(ms)}

InitViews ==
  /\ \E ms \in ViewCollections : StoreInit(ms)
  /\ TeamInit
  /\ DuelInit
  /\ ViewInit

NextViews ==
  \/ renderSortableTable
  \/ \E steamId \in ViewIds : renderPlayerProfile(steamId)
  \/ \E match \in ViewPool : renderMatchViewer(match)
  \/ \E id \in ViewIds : setPlayer1Id(id)
  \/ \E id \in ViewIds : setPlayer2Id(id)
  \/ renderDuels

SpecViews == InitViews /\ [][NextViews]_vars

----------------------------------------------------------------------------
(* Specification of the balancer: generateTeams applied to the lobbies and  *)
(* assignments the team builder can hold, over a loaded collection         *)

TeamCollection ==
  <<Match("m1", 30, Data1), Match("m2", 10, Data2), Match("m3", 20, Data4)>>

\* the collection as loaded, the same after a deleteMatch("m3") that
\* completed while the lobby was being edited (player 4 no longer resolves),
\* and a collection of one match of four players
TeamCollections ==
  {TeamCollection, DeleteMatchFrom(TeamCollection, "m3"),
   <<Match("m4", 40, Data6)>>}

\* lobbies: addPlayerToLobby appends ids that are not yet in the lobby
Lobbies ==
  {q \in SeqsUpTo(SteamIdStrs, Cardinality(SteamIdStrs)) :
     \A i, j \in 1..Len(q) : q[i] = q[j] => i = j}

\* assignments: assignPlayer sets them for lobby members only and
\* removePlayerFromLobby deletes them
AssignmentsOf(lobby) ==
  UNION {[ids -> {"team1", "team2", "bench"}] : ids \in SUBSET Range(lobby)}

InitTeams ==
  /\ \E ms \in TeamCollections : StoreInit(ms)
  /\ lobbyPlayers \in Lobbies
  /\ manualAssignments \in AssignmentsOf(lobbyPlayers)
  /\ generatedTeams = None
  /\ teamsOp = "none"
  /\ DuelInit
  /\ ViewInit

NextTeams ==
  \/ generateTeams
  \/ \E steamId \in LobbyDetails : removePlayerFromLobby(steamId)

SpecTeams == InitTeams /\ [][NextTeams]_vars

----------------------------------------------------------------------------
(* Specification of the lobby: the lobby operations of the team builder    *)
(* over a collection with more players than the lobby can hold              *)

LobbyIds == <<"1", "2", "3", "4", "5", "6", "7", "8", "9", "10", "11">>

LobbyRecord(id) ==
  PlayerStats("player", StrId(id), "red", NoDuels,
              10, 10, 2, 20, 1000, 1, 1, 2, 0, 10, 2, 100)

LobbyCollection ==
  <<Match("m5", 50, [i \in 1..Len(LobbyIds) |-> LobbyRecord(LobbyIds[i])])>>

\* the players whose rows are clicked; the other members stay in the lobby
LobbyActors == {"1", "10", "11"}

\* an empty lobby, or one that nine earlier clicks filled up to one below
\* the cap
InitLobby ==
  /\ StoreInit(LobbyCollection)
  /\ lobbyPlayers \in {<<>>, SubSeq(LobbyIds, 1, LobbyCap - 1)}
  /\ manualAssignments = [id \in {} |-> "bench"]
  /\ generatedTeams = None
  /\ teamsOp = "none"
  /\ DuelInit
  /\ ViewInit

NextLobby ==
  \/ \E steamId \in LobbyActors : addPlayerToLobby(steamId)
  \/ \E steamId \in LobbyActors \cap LobbyDetails :
       removePlayerFromLobby(steamId)
  \/ \E steamId \in LobbyActors \cap LobbyDetails :
       \E team \in {"team1", "team2", "bench", Null} :
         assignPlayer(steamId, team)
  \/ clearAll

SpecLobby == InitLobby /\ [][NextLobby]_vars

----------------------------------------------------------------------------
(* Properties of the aggregate *)

Participates(m, id) ==
  \E j \in 1..Len(m.data) : steamIdToString(m.data[j].steam_id) = id

\* positions <<match, record>> of the participant records of id
Occurrences(ms, id) ==
  UNION {{<<i, j>> : j \in {k \in 1..Len(ms[i].data) :
                               steamIdToString(ms[i].data[k].steam_id) = id}} :
         i \in 1..Len(ms)}

RECURSIVE SumAt(_, _, _)
SumAt(ms, field, positions) ==
  IF positions = {} THEN 0
  ELSE LET x == CHOOSE y \in positions : TRUE
       IN ms[x[1]].data[x[2]][field] + SumAt(ms, field, positions \ {x})

EntriesOf(id) == {i \in 1..Len(allPlayers) : allPlayers[i].steam_id = id}

\* C1: the aggregate set has an entry for a steamId exactly when a match of
\* the current collection contains it, and the entry's matches counter is the
\* number of matches of the collection that contain it (never 0).
C1_MatchesCounter ==
  \A id \in SteamIdStrs :
    LET containing == {i \in 1..Len(matches) : Participates(matches[i], id)}
    IN /\ (EntriesOf(id) # {}) <=> (containing # {})
       /\ \A e \in EntriesOf(id) :
            /\ allPlayers[e].matches = Cardinality(containing)
            /\ allPlayers[e].matches > 0

\* a deletion has left a player with two matches and removed another player
C1_Witness ==
  /\ lastOp.kind = "deleteMatch"
  /\ \E e \in 1..Len(allPlayers) : allPlayers[e].matches = 2
  /\ \E id \in {"1", "2", "3"} : EntriesOf(id) = {}

\* C2: every counting stat and the summed rating score of an aggregate equal
\* the sum of that field over all participant records with that steamId.
C2_FieldSums ==
  \A e \in 1..Len(allPlayers) :
    \A field \in SumFields :
      allPlayers[e][field] =
        SumAt(matches, field, Occurrences(matches, allPlayers[e].steam_id))

\* the same record folded twice: matches = 2 and doubled sums
C2_Witness ==
  \E e \in 1..Len(allPlayers) :
    /\ allPlayers[e].steam_id = "1"
    /\ allPlayers[e].matches = 2
    /\ allPlayers[e].kills = 40
    /\ allPlayers[e].deaths = 20
    /\ allPlayers[e].hltv_3_0_score = 240

\* C3 as stated: addMatch(m) followed by deleteMatch(m.id) leaves allPlayers
\* equal to its value before the add.
C3_AddThenDelete ==
  roundTrip.set => allPlayers = roundTrip.players

\* C3 amended: addMatch(m) followed by deleteMatch(m.id) leaves allPlayers
\* equal to its value before the add when no match of the collection had the
\* id of m before the add.
C3_AddFreshThenDelete ==
  (roundTrip.set /\ roundTrip.fresh) => allPlayers = roundTrip.players

\* a fresh match was added to a non-empty aggregate and then deleted
C3_Witness ==
  /\ roundTrip.set
  /\ roundTrip.fresh
  /\ lastOp.kind = "deleteMatch"
  /\ Len(roundTrip.players) >= 2
  /\ Len(matches) >= 1

----------------------------------------------------------------------------
(* Properties of the duel reconciliation *)

BothIn(m, idA, idB) == Participates(m, idA) /\ Participates(m, idB)

RecordOf(m, id) ==
  m.data[CHOOSE j \in 1..Len(m.data) : steamIdToString(m.data[j].steam_id) = id]

\* what one match contributes to <<aKills, bKills>> under the policy
Contribution(m, idA, idB) ==
  IF ~BothIn(m, idA, idB) THEN <<0, 0>>
  ELSE IF idB \in DOMAIN RecordOf(m, idA).duels
       THEN <<RecordOf(m, idA).duels[idB].kills,
              RecordOf(m, idA).duels[idB].deaths>>
  ELSE IF idA \in DOMAIN RecordOf(m, idB).duels
       THEN <<RecordOf(m, idB).duels[idA].deaths,
              RecordOf(m, idB).duels[idA].kills>>
  ELSE <<0, 0>>

RECURSIVE SumContributions(_, _, _, _)
SumContributions(indices, side, idA, idB) ==
  IF indices = {} THEN 0
  ELSE LET i == CHOOSE x \in indices : TRUE
       IN Contribution(matches[i], idA, idB)[side]
          + SumContributions(indices \ {i}, side, idA, idB)

\* C9: aKills and bKills are the sums, over the matches in which both players
\* are participants, of A's own entry for B when it is present, otherwise of
\* B's entry for A read with its sides swapped, otherwise of nothing.
C9_DuelPolicy ==
  duelStats.set =>
    /\ duelStats.p1Kills =
         SumContributions(1..Len(matches), 1, player1Id, player2Id)
    /\ duelStats.p2Kills =
         SumContributions(1..Len(matches), 2, player1Id, player2Id)

\* one match decided by A's own entry (3:1), one by B's entry alone (1:4 as
\* seen by B), together 7:2
C9_Witness ==
  /\ duelStats.set
  /\ player1Id = "1"
  /\ player2Id = "2"
  /\ duelStats.p1Kills = 7
  /\ duelStats.p2Kills = 2
  /\ \E i \in 1..Len(matches) :
       /\ BothIn(matches[i], "1", "2")
       /\ "2" \notin DOMAIN RecordOf(matches[i], "1").duels
       /\ "1" \in DOMAIN RecordOf(matches[i], "2").duels
  /\ \E i \in 1..Len(matches) :
       /\ BothIn(matches[i], "1", "2")
       /\ "2" \in DOMAIN RecordOf(matches[i], "1").duels
       /\ "1" \in DOMAIN RecordOf(matches[i], "2").duels

RECURSIVE SumHistory(_, _)
SumHistory(history, field) ==
  IF history = <<>> THEN 0
  ELSE Head(history)[field] + SumHistory(Tail(history), field)

\* C10: a match in which only one of the two players is a participant
\* contributes nothing: every history entry is of a match with both players,
\* and the totals are the sums of the history entries.
C10_OnlyCommonMatches ==
  duelStats.set =>
    /\ \A h \in 1..Len(duelStats.history) :
         BothIn(duelStats.history[h].match, player1Id, player2Id)
    /\ duelStats.p1Kills = SumHistory(duelStats.history, "p1Kills")
    /\ duelStats.p2Kills = SumHistory(duelStats.history, "p2Kills")

\* a match holds only player 1, whose duel map has an entry for player 2
C10_Witness ==
  /\ duelStats.set
  /\ player1Id = "1"
  /\ player2Id = "2"
  /\ \E i \in 1..Len(matches) :
       /\ Participates(matches[i], "1")
       /\ ~Participates(matches[i], "2")
       /\ "2" \in DOMAIN RecordOf(matches[i], "1").duels

----------------------------------------------------------------------------
(* Properties of the team balancer *)

Resolves(id) == \E i \in 1..Len(allPlayers) : allPlayers[i].steam_id = id

\* the active roster: lobby members that resolve and are not benched
ActiveIds ==
  {id \in Range(lobbyPlayers) :
     Resolves(id) /\ Assigned(manualAssignments, id) # "bench"}

ActiveCount == Cardinality(ActiveIds)

IdsOf(team) == {team[i].steam_id : i \in 1..Len(team)}

PinnedIds(team) ==
  {id \in ActiveIds : Assigned(manualAssignments, id) = team}

UnassignedIds ==
  {id \in ActiveIds : Assigned(manualAssignments, id) = ""}

\* C4: generateTeams reports a validation failure exactly when the number of
\* active (non-benched, resolvable) members is odd or below 2, and then the
\* previously generated teams are left unchanged; benched members do not
\* count.
C4_ValidationFailure ==
  [][teamsOp' # "none" =>
       IF ActiveCount % 2 # 0 \/ ActiveCount < 2
       THEN teamsOp' = "alert" /\ generatedTeams' = generatedTeams
       ELSE teamsOp' = "ok" /\ generatedTeams'.set]_vars

\* a failure on an odd active roster with a benched member, after an earlier
\* success whose teams are still there
C4_Witness ==
  /\ teamsOp = "alert"
  /\ generatedTeams.set
  /\ ActiveCount % 2 = 1
  /\ \E id \in Range(lobbyPlayers) : Assigned(manualAssignments, id) = "bench"

\* C5: for a roster without pins and bench whose size n is even and at least
\* 2, generateTeams succeeds with two teams of n/2 members each.
C5_NoPinsEvenSplit ==
  LET n == Cardinality(LobbyDetails)
  IN (/\ teamsOp # "none"
      /\ DOMAIN manualAssignments = {}
      /\ n % 2 = 0
      /\ n >= 2) =>
       /\ teamsOp = "ok"
       /\ Len(generatedTeams.team1) = n \div 2
       /\ Len(generatedTeams.team2) = n \div 2

\* four unpinned players split two and two
C5_Witness ==
  /\ teamsOp = "ok"
  /\ DOMAIN manualAssignments = {}
  /\ Cardinality(LobbyDetails) = 4
  /\ Len(generatedTeams.team1) = 2
  /\ Len(generatedTeams.team2) = 2

\* C6 as stated: whatever the pins are, a successful balance has two teams of
\* teamSize = activeCount / 2 members each.
C6_EqualTeams ==
  teamsOp = "ok" =>
    /\ Len(generatedTeams.team1) = ActiveCount \div 2
    /\ Len(generatedTeams.team2) = ActiveCount \div 2

\* C6 amended: a successful balance in which neither team has more than
\* teamSize pinned members has two teams of teamSize members each.
C6_EqualTeamsWithinPins ==
  (/\ teamsOp = "ok"
   /\ Cardinality(PinnedIds("team1")) <= ActiveCount \div 2
   /\ Cardinality(PinnedIds("team2")) <= ActiveCount \div 2) =>
    /\ Len(generatedTeams.team1) = ActiveCount \div 2
    /\ Len(generatedTeams.team2) = ActiveCount \div 2

\* pins on both teams, two candidates left for the greedy pass
C6_Witness ==
  /\ teamsOp = "ok"
  /\ ActiveCount = 4
  /\ Cardinality(PinnedIds("team1")) = 1
  /\ Cardinality(PinnedIds("team2")) = 1
  /\ Len(generatedTeams.team1) = 2
  /\ Len(generatedTeams.team2) = 2

\* C7: in a successful balance a member pinned to team1 is in team1 and not
\* in team2, a member pinned to team2 is in team2 and not in team1, and a
\* benched member is in neither team.
C7_PinsRespected ==
  teamsOp = "ok" =>
    \A id \in Range(lobbyPlayers) :
      LET pin == Assigned(manualAssignments, id)
          in1 == id \in IdsOf(generatedTeams.team1)
          in2 == id \in IdsOf(generatedTeams.team2)
      IN /\ pin = "team1" => (~in2 /\ (Resolves(id) => in1))
         /\ pin = "team2" => (~in1 /\ (Resolves(id) => in2))
         /\ pin = "bench" => (~in1 /\ ~in2)

\* the lowest-rated player pinned to team1, the highest-rated pinned to
\* team2, and a benched player
C7_Witness ==
  /\ teamsOp = "ok"
  /\ Assigned(manualAssignments, "2") = "team1"
  /\ Assigned(manualAssignments, "4") = "team2"
  /\ Resolves("4")
  /\ \E id \in Range(lobbyPlayers) : Assigned(manualAssignments, id) = "bench"

EntryOf(id) == allPlayers[CHOOSE i \in 1..Len(allPlayers) :
                            allPlayers[i].steam_id = id]

LobbyIndex(id) == CHOOSE i \in 1..Len(lobbyPlayers) : lobbyPlayers[i] = id

\* average rating of x above that of y, or equal with x earlier in the lobby
GoesBefore(x, y) ==
  LET rx == EntryOf(x)
      ry == EntryOf(y)
  IN \/ rx.hltv_3_0_score * ry.matches > ry.hltv_3_0_score * rx.matches
     \/ /\ rx.hltv_3_0_score * ry.matches = ry.hltv_3_0_score * rx.matches
        /\ LobbyIndex(x) < LobbyIndex(y)

\* the candidates in the order of the reference pass
RefOrder ==
  CHOOSE q \in SeqsUpTo(UnassignedIds, Cardinality(UnassignedIds)) :
    /\ Range(q) = UnassignedIds
    /\ Len(q) = Cardinality(UnassignedIds)
    /\ \A i, j \in 1..Len(q) : i < j => GoesBefore(q[i], q[j])

RECURSIVE SumRatings(_)
SumRatings(ids) ==
  IF ids = {} THEN Frac(0, 1)
  ELSE LET id == CHOOSE x \in ids : TRUE
       IN FracAdd(Rating(EntryOf(id)), SumRatings(ids \ {id}))

\* C8: the result is that of the reference pass: candidates in descending
\* average rating, ties in roster order, each to team1 iff team1 has room and
\* (team1's summed rating <= team2's or team2 is full), otherwise to team2
\* iff team2 has room; the sums include the pinned members.
C8_ReferenceGreedy ==
  teamsOp = "ok" =>
    LET teamSize == ActiveCount \div 2
        ids1 == IdsOf(generatedTeams.team1)
        ids2 == IdsOf(generatedTeams.team2)
        before(k, ids, team) ==
          PinnedIds(team) \cup {RefOrder[j] : j \in {i \in 1..(k - 1) :
                                                      RefOrder[i] \in ids}}
    IN /\ ids1 \subseteq PinnedIds("team1") \cup UnassignedIds
       /\ ids2 \subseteq PinnedIds("team2") \cup UnassignedIds
       /\ \A k \in 1..Len(RefOrder) :
            LET b1 == before(k, ids1, "team1")
                b2 == before(k, ids2, "team2")
                toTeam1 == /\ Cardinality(b1) < teamSize
                           /\ \/ FracLeq(SumRatings(b1), SumRatings(b2))
                              \/ Cardinality(b2) >= teamSize
                toTeam2 == ~toTeam1 /\ Cardinality(b2) < teamSize
            IN /\ RefOrder[k] \in ids1 <=> toTeam1
               /\ RefOrder[k] \in ids2 <=> toTeam2

\* a pinned member and three candidates, two of them tied and standing in the
\* lobby in the order 3 before 1; the last candidate goes to team1 because
\* team2 is full
C8_Witness ==
  /\ teamsOp = "ok"
  /\ lobbyPlayers = <<"3", "2", "1", "4">>
  /\ manualAssignments = ("2" :> "team2")
  /\ Resolves("4")
  /\ [i \in 1..2 |-> generatedTeams.team1[i].steam_id] = <<"4", "1">>
  /\ [i \in 1..2 |-> generatedTeams.team2[i].steam_id] = <<"2", "3">>

----------------------------------------------------------------------------
(* Properties of the duel selection *)

\* C11: the duel reconciliation is null, with no totals and no history,
\* whenever a selected steamId is unset or is not the steam_id of an entry of
\* the current aggregate set, as after the deletion of every match of that
\* player.
C11_NullWhenUnresolved ==
  (\/ player1Id = Null
   \/ player2Id = Null
   \/ ~Resolves(player1Id)
   \/ ~Resolves(player2Id)) => duelStats = None

\* both ids were selected and a deleteMatch removed the last match of one
C11_Witness ==
  /\ lastOp.kind = "deleteMatch"
  /\ player1Id # Null
  /\ player2Id # Null
  /\ Resolves(player1Id)
  /\ ~Resolves(player2Id)
  /\ matches # <<>>
  /\ duelStats = None

----------------------------------------------------------------------------
(* Properties of the derived metrics *)

IsZero(x) == x.den # 0 /\ x.num = 0

SameNumber(x, y) == x.den # 0 /\ y.den # 0 /\ x.num * y.den = y.num * x.den

\* C12: every rate statistic (KPR, DPR, APR, ADR, average rating) is 0, never
\* NaN or Infinity, when its denominator (rounds played or matches) is 0, in
\* the leaderboard row, in the player profile and in the ADR column of the
\* per-match scoreboard.
C12_ZeroDenominatorGivesZero ==
  /\ (view.kind = "SortableTable") =>
        \A i \in 1..Len(view.rows) :
          LET row == view.rows[i]
          IN /\ (row.player.rounds_played = 0) =>
                   /\ IsZero(row.kpr)
                   /\ IsZero(row.adr)
                   /\ row.kprText = <<"0", ".", "0", "0">>
                   /\ row.dpr = <<"0", ".", "0", "0">>
             /\ (row.player.matches = 0) => IsZero(row.rating)
  /\ (view.kind = "PlayerProfile" /\ view.available) =>
        /\ (view.stats.rounds_played = 0) =>
              /\ view.adr = <<"0", ".", "0">>
              /\ view.kpr = <<"0", ".", "0", "0">>
              /\ view.apr = <<"0", ".", "0", "0">>
              /\ view.dpr = <<"0", ".", "0", "0">>
        /\ (view.stats.matches = 0) => view.rating = <<"0", ".", "0", "0">>
  /\ (view.kind = "MatchViewer") =>
        \A i \in 1..Len(view.scoreboard) :
          (view.scoreboard[i].player.rounds_played = 0) =>
             view.scoreboard[i].adr = <<"0", ".", "0">>

ScoreNames == {"Firepower", "Entry", "Opening", "Trading", "Clutching",
               "Sniping", "Utility"}

\* C13: each of the seven playstyle scores of a profile is a number from 0 to
\* 100; the Entry score is 0 when the player has no opening attempts, and the
\* Sniping score is a number from 0 to 100 also when the player has 0 kills.
C13_ScoresInRange ==
  (view.kind = "PlayerProfile" /\ view.available) =>
    /\ \A name \in ScoreNames :
          /\ view.scores[name].den # 0
          /\ FracLeq(Num(0), view.scores[name])
          /\ FracLeq(view.scores[name], Num(100))
    /\ (view.stats.opening_attempts = 0) => IsZero(view.scores.Entry)

RoleOf(kills, sniperKills) ==
  IF kills > 0 /\ 100 * sniperKills > 40 * kills THEN "Sniper" ELSE "Rifler"

\* C14: a player is a Sniper exactly when kills > 0 and
\* 100 * sniper_kills > 40 * kills, and a Rifler otherwise, for an aggregate
\* (leaderboard row) and for a single-match record (duel history): with 100
\* kills, 40 sniper kills give Rifler and 41 give Sniper; 0 kills give Rifler.
C14_SniperThreshold ==
  /\ (view.kind = "SortableTable") =>
        \A i \in 1..Len(view.rows) :
          view.rows[i].role = RoleOf(view.rows[i].player.kills,
                                     view.rows[i].player.sniper_kills)
  /\ duelStats.set =>
        \A h \in 1..Len(duelStats.history) :
          LET entry == duelStats.history[h]
              r1 == FindData(entry.match.data, player1Id).value
              r2 == FindData(entry.match.data, player2Id).value
          IN /\ entry.p1Role = RoleOf(r1.kills, r1.sniper_kills)
             /\ entry.p2Role = RoleOf(r2.kills, r2.sniper_kills)

\* the leaderboard shows a Rifler at exactly 40 %, a Sniper at 41 % and a
\* Rifler without kills, and the duel history has the first two as records
C14_Witness ==
  /\ view.kind = "SortableTable"
  /\ \E i, j, k \in 1..Len(view.rows) :
        /\ view.rows[i].player.kills = 100
        /\ view.rows[i].player.sniper_kills = 40
        /\ view.rows[i].role = "Rifler"
        /\ view.rows[j].player.kills = 100
        /\ view.rows[j].player.sniper_kills = 41
        /\ view.rows[j].role = "Sniper"
        /\ view.rows[k].player.kills = 0
        /\ view.rows[k].role = "Rifler"
  /\ duelStats.set
  /\ \E h \in 1..Len(duelStats.history) :
        /\ duelStats.history[h].p1Role = "Rifler"
        /\ duelStats.history[h].p2Role = "Sniper"

RefKD(p) == IF p.deaths > 0 THEN Frac(p.kills, p.deaths) ELSE Frac(p.kills, 1)

\* C15: K/D is kills / deaths when deaths > 0 and the raw kill count when
\* deaths = 0, in the leaderboard row, in the league average, in the player
\* profile and in the duel comparison.
C15_KillDeathRatio ==
  /\ (view.kind = "SortableTable") =>
        /\ \A i \in 1..Len(view.rows) :
              SameNumber(view.rows[i].kd, RefKD(view.rows[i].player))
        /\ ~view.leagueAverages.empty =>
              view.leagueAverages.kd =
                toFixed(Divide(ReduceSum([i \in 1..Len(allPlayers) |->
                                            RefKD(allPlayers[i])]),
                               Num(Len(allPlayers))), 2)
  /\ (view.kind = "PlayerProfile" /\ view.available) =>
        view.kd = toFixed(RefKD(view.stats), 2)
  /\ (view.kind = "Duels") =>
        /\ view.p1.kd = toFixed(RefKD(view.p1.player), 2)
        /\ view.p2.kd = toFixed(RefKD(view.p2.player), 2)

\* a leaderboard row of a player with 10 kills and no deaths shows 10
C15_Witness ==
  /\ view.kind = "SortableTable"
  /\ \E i \in 1..Len(view.rows) :
        /\ view.rows[i].player.kills = 10
        /\ view.rows[i].player.deaths = 0
        /\ SameNumber(view.rows[i].kd, Num(10))
  /\ view.leagueAverages.kd = <<"6", ".", "0", "0">>

----------------------------------------------------------------------------
(* Properties of the fold *)

ClutchFields == {"clutches_won_1v1", "clutches_won_1v2", "clutches_won_1v3",
                 "clutches_won_1v4", "clutches_won_1v5"}

\* the sum of the fields of a record that are present
RECURSIVE SumPresent(_, _)
SumPresent(record, fields) ==
  IF fields = {} THEN 0
  ELSE LET f == CHOOSE g \in fields : TRUE
       IN (IF f \in DOMAIN record THEN record[f] ELSE 0)
          + SumPresent(record, fields \ {f})

RECURSIVE SumPresentAt(_, _, _)
SumPresentAt(ms, fields, positions) ==
  IF positions = {} THEN 0
  ELSE LET x == CHOOSE y \in positions : TRUE
       IN SumPresent(ms[x[1]].data[x[2]], fields)
          + SumPresentAt(ms, fields, positions \ {x})

\* C16: every folded participant record adds the sum of its five clutch
\* bracket fields to clutches_won and its trade_kills to trade_kills, an
\* absent field counting as 0: each aggregate holds the sums of the present
\* fields over the records of its player, and a record without any of the
\* fields adds 0 to both.
C16_OptionalFields ==
  \A e \in 1..Len(allPlayers) :
    LET positions == Occurrences(matches, allPlayers[e].steam_id)
    IN /\ allPlayers[e].clutches_won =
            SumPresentAt(matches, ClutchFields, positions)
       /\ allPlayers[e].trade_kills =
            SumPresentAt(matches, {"trade_kills"}, positions)

\* player 1 folded from a record with brackets {2, 1, 0, 0, 0} and one
\* without the fields; player 3 folded from records without the fields only
C16_Witness ==
  /\ \E e \in 1..Len(allPlayers) :
        /\ allPlayers[e].steam_id = "1"
        /\ allPlayers[e].matches = 2
        /\ allPlayers[e].clutches_won = 3
        /\ allPlayers[e].trade_kills = 2
  /\ \E e \in 1..Len(allPlayers) :
        /\ allPlayers[e].steam_id = "3"
        /\ allPlayers[e].clutches_won = 0
        /\ allPlayers[e].trade_kills = 0

\* C17: the aggregate set has exactly one entry per steamId after string
\* normalization: no two entries share a steam_id, and a record whose
\* steam_id is a number and a record whose steam_id is the string form of
\* that number fold into the same entry.
C17_OneEntryPerSteamId ==
  /\ \A i, j \in 1..Len(allPlayers) :
        allPlayers[i].steam_id = allPlayers[j].steam_id => i = j
  /\ \A m \in 1..Len(matches) :
        \A r \in 1..Len(matches[m].data) :
          LET raw == matches[m].data[r].steam_id
              text == IF raw.tag = "number" THEN DecStr(raw.val) ELSE raw.val
          IN Cardinality({e \in 1..Len(allPlayers) :
                            allPlayers[e].steam_id = text}) = 1

\* the collection holds player 1 once with the string id "1" and once with
\* the number id 1, and the aggregate set has them in one entry
C17_Witness ==
  /\ \E m, n \in 1..Len(matches) :
        /\ \E r \in 1..Len(matches[m].data) :
              matches[m].data[r].steam_id = StrId("1")
        /\ \E r \in 1..Len(matches[n].data) :
              matches[n].data[r].steam_id = NumId(1)
  /\ Cardinality(EntriesOf("1")) = 1
  /\ \A e \in EntriesOf("1") : allPlayers[e].matches = 2

TotalFields == SumFields \cup {"matches", "trade_kills", "clutches_won"}

Reorderings(n) ==
  {f \in [1..n -> 1..n] : \A i, j \in 1..n : f[i] = f[j] => i = j}

Reordered(ms, f) == [i \in 1..Len(ms) |-> ms[f[i]]]

----------------------------------------------------------------------------
(* Properties of the store operations *)

\* no entry of before has a counter above the one of its player in after
NotAbove(before, after) ==
  \A i \in 1..Len(before) :
    \E j \in 1..Len(after) :
      /\ after[j].steam_id = before[i].steam_id
      /\ \A field \in TotalFields : before[i][field] <= after[j][field]

\* C20 as stated: every addMatch/addMatches step leaves each player's
\* matches counter and summed fields at or above their previous values, and
\* every deleteMatch/deleteMatches step leaves them at or below.
C20_Monotone ==
  [][/\ (lastOp'.kind \in {"addMatch", "addMatches"}) =>
          NotAbove(allPlayers, allPlayers')
     /\ (lastOp'.kind \in {"deleteMatch", "deleteMatches"}) =>
          NotAbove(allPlayers', allPlayers)]_vars

\* C20 amended: the same for every add step that replaces no stored match
\* (no added match has the id of a stored one and, for addMatches, no two
\* stored matches share an id), and for every delete step.
C20_MonotoneKeepingAdds ==
  [][/\ (lastOp'.kind \in {"addMatch", "addMatches"} /\ lastOp'.keeps) =>
          NotAbove(allPlayers, allPlayers')
     /\ (lastOp'.kind \in {"deleteMatch", "deleteMatches"}) =>
          NotAbove(allPlayers', allPlayers)]_vars

\* an addMatches of new ids to a collection that already has players
C20_Witness ==
  /\ lastOp.kind = "addMatches"
  /\ lastOp.keeps
  /\ Len(matches) = 3
  /\ \E e \in 1..Len(allPlayers) : allPlayers[e].matches = 3

----------------------------------------------------------------------------
(* Names of the aggregates *)

\* the last participant record of id in iteration order: last match of the
\* collection that holds it, last such record of that match
LastOccurrence(ms, id) ==
  CHOOSE x \in Occurrences(ms, id) :
    \A y \in Occurrences(ms, id) :
      y[1] < x[1] \/ (y[1] = x[1] /\ y[2] <= x[2])

\* C21: the name of each aggregate is the name of the last participant
\* record with its steamId in iteration order of the collection, not the
\* name of the first one.
C21_LatestNameWins ==
  \A e \in 1..Len(allPlayers) :
    LET x == LastOccurrence(matches, allPlayers[e].steam_id)
    IN allPlayers[e].name = matches[x[1]].data[x[2]].name

\* a player whose first record is named "ann" and whose last one "anna"
C21_Witness ==
  \E e \in 1..Len(allPlayers) :
    LET occ == Occurrences(matches, allPlayers[e].steam_id)
        first == CHOOSE x \in occ :
                   \A y \in occ : x[1] < y[1] \/ (x[1] = y[1] /\ x[2] <= y[2])
    IN /\ allPlayers[e].matches >= 2
       /\ matches[first[1]].data[first[2]].name = "ann"
       /\ allPlayers[e].name = "anna"

----------------------------------------------------------------------------
(* Duel history *)

\* the match adds to the totals: both players took part and one of the two
\* duel maps has an entry for the other player
Contributes(m, idA, idB) ==
  /\ BothIn(m, idA, idB)
  /\ \/ idB \in DOMAIN RecordOf(m, idA).duels
     \/ idA \in DOMAIN RecordOf(m, idB).duels

\* C23: the history holds exactly one entry for each match that contributed
\* to the totals, and none for a match in which both players took part but
\* neither recorded the duel; its entries are in non-increasing order of
\* match timestamp, whatever the order of the collection.
C23_HistoryOfContributingMatches ==
  duelStats.set =>
    LET history == duelStats.history
        contributing == {i \in 1..Len(matches) :
                           Contributes(matches[i], player1Id, player2Id)}
    IN /\ Len(history) = Cardinality(contributing)
       /\ \A h \in 1..Len(history) :
            Cardinality({g \in 1..Len(history) :
                           history[g].match = history[h].match}) =
            Cardinality({i \in contributing :
                           matches[i] = history[h].match})
       /\ \A h \in 1..Len(history) - 1 :
            history[h].match.timestamp >= history[h + 1].match.timestamp

\* the collection holds the contributing matches oldest first, with a match
\* between them in which both players took part without a duel entry
C23_Witness ==
  /\ duelStats.set
  /\ Len(duelStats.history) = 2
  /\ Len(matches) = 3
  /\ Contributes(matches[1], player1Id, player2Id)
  /\ BothIn(matches[2], player1Id, player2Id)
  /\ ~Contributes(matches[2], player1Id, player2Id)
  /\ Contributes(matches[3], player1Id, player2Id)
  /\ matches[1].timestamp < matches[3].timestamp
  /\ duelStats.history[1].match = matches[3]
  /\ duelStats.history[2].match = matches[1]

----------------------------------------------------------------------------
(* Profile aggregate against the global aggregate *)

\* C29: the aggregate a profile shows for a steamId, computed over the
\* matches that contain the player only, equals field for field (name and
\* matches counter included) the entry of that steamId in the aggregate of
\* the whole collection, and is missing exactly when that entry is missing.
C29_ProfileIsGlobalEntry ==
  view.kind = "PlayerProfile" =>
    LET whole == FindPlayer(allPlayers, view.steamId)
    IN /\ view.available = whole.set
       /\ whole.set => view.stats = whole.value

\* the profile of a player of two matches, named differently in them, in a
\* collection that also holds a match without the player
C29_Witness ==
  /\ view.kind = "PlayerProfile"
  /\ view.available
  /\ view.stats.matches = 2
  /\ view.stats.name = "anna"
  /\ Len(matches) = 3
  /\ \E i \in 1..Len(matches) : ~Participates(matches[i], view.steamId)
  /\ \E i \in 1..Len(matches) :
       /\ Participates(matches[i], view.steamId)
       /\ RecordOf(matches[i], view.steamId).name = "ann"

----------------------------------------------------------------------------
(* Order and coverage of the generated teams *)

TeamIds(team) == [i \in 1..Len(team) |-> team[i].steam_id]

\* ids holds first the members pinned to team in lobby order, then
\* candidates in the order of the greedy pass (descending average rating,
\* ties in lobby order)
InsertionOrder(ids, team) ==
  LET pinned == Cardinality(PinnedIds(team))
  IN /\ Len(ids) >= pinned
     /\ \A i \in 1..Len(ids) :
          IF i <= pinned THEN ids[i] \in PinnedIds(team)
          ELSE ids[i] \in UnassignedIds
     /\ \A i, j \in 1..Len(ids) :
          i < j =>
            IF j <= pinned THEN LobbyIndex(ids[i]) < LobbyIndex(ids[j])
            ELSE i > pinned => GoesBefore(ids[i], ids[j])

\* C24: within each generated team the members stand in insertion order:
\* first the members pinned to that team, in lobby order, then the candidates
\* the greedy pass gave to it, in the order of the pass (descending average
\* rating); the teams are not sorted again.
C24_InsertionOrder ==
  teamsOp = "ok" =>
    /\ InsertionOrder(TeamIds(generatedTeams.team1), "team1")
    /\ InsertionOrder(TeamIds(generatedTeams.team2), "team2")

\* a team of a pinned member followed by a higher rated candidate, and a
\* team of two candidates that stand in the lobby in the opposite order
C24_Witness ==
  /\ teamsOp = "ok"
  /\ \E a, b \in {"team1", "team2"} :
       LET pinnedTeam == TeamIds(generatedTeams[a])
           freeTeam == TeamIds(generatedTeams[b])
       IN /\ a # b
          /\ Len(pinnedTeam) = 2
          /\ Len(freeTeam) = 2
          /\ pinnedTeam[1] \in PinnedIds(a)
          /\ pinnedTeam[2] \in UnassignedIds
          /\ GoesBefore(pinnedTeam[2], pinnedTeam[1])
          /\ LobbyIndex(pinnedTeam[2]) < LobbyIndex(pinnedTeam[1])
          /\ freeTeam[1] \in UnassignedIds
          /\ freeTeam[2] \in UnassignedIds
          /\ LobbyIndex(freeTeam[2]) < LobbyIndex(freeTeam[1])

\* C26: in every successful balance, whatever the pins are (more than
\* teamSize members pinned to one team included), every active roster
\* member is in exactly one of team1 and team2: none is dropped and none is
\* placed twice.
C26_EveryActiveMemberOnce ==
  teamsOp = "ok" =>
    LET ids1 == TeamIds(generatedTeams.team1)
        ids2 == TeamIds(generatedTeams.team2)
    IN /\ Range(ids1) \cup Range(ids2) = ActiveIds
       /\ Range(ids1) \cap Range(ids2) = {}
       /\ Len(ids1) + Len(ids2) = ActiveCount

\* three of four active members pinned to team1, one more than teamSize:
\* the one candidate goes to team2
C26_Witness ==
  /\ teamsOp = "ok"
  /\ ActiveCount = 4
  /\ Cardinality(PinnedIds("team1")) = 3
  /\ Cardinality(UnassignedIds) = 1
  /\ Len(generatedTeams.team1) = 3
  /\ Len(generatedTeams.team2) = 1

\* summed average rating of the team within cap of that of the other team
Within(team, other, cap) ==
  FracLeq(TeamRating(team), FracAdd(TeamRating(other), cap))

\* the highest average rating of an active roster member
MaxActiveRating ==
  LET top == CHOOSE id \in ActiveIds :
               \A other \in ActiveIds :
                 FracLeq(Rating(EntryOf(other)), Rating(EntryOf(id)))
  IN Rating(EntryOf(top))

\* C27: when no member is pinned to a team and all average ratings are
\* non-negative, the summed average ratings of the two generated teams
\* differ by at most the highest average rating of the active roster.
C27_DifferenceBound ==
  (/\ teamsOp = "ok"
   /\ PinnedIds("team1") = {}
   /\ PinnedIds("team2") = {}
   /\ \A id \in ActiveIds : FracLeq(Num(0), Rating(EntryOf(id)))) =>
    /\ Within(generatedTeams.team1, generatedTeams.team2, MaxActiveRating)
    /\ Within(generatedTeams.team2, generatedTeams.team1, MaxActiveRating)

\* four unpinned players whose two highest ratings together exceed the two
\* lowest by more than the highest one, split into teams of unequal sums
C27_Witness ==
  /\ teamsOp = "ok"
  /\ DOMAIN manualAssignments = {}
  /\ ActiveCount = 4
  /\ TeamRating(generatedTeams.team1) # TeamRating(generatedTeams.team2)
  /\ \E a, b \in ActiveIds :
       /\ a # b
       /\ ~FracLeq(FracAdd(Rating(EntryOf(a)), Rating(EntryOf(b))),
                   FracAdd(SumRatings(ActiveIds \ {a, b}), MaxActiveRating))

----------------------------------------------------------------------------
(* Symmetry of the duel reconciliation *)

\* the reconciliation of the selected pair with its two players exchanged
Reversed == computeDuelStats(player2Id, player1Id, allPlayers, matches)

\* both duel maps of the match carry an entry for the other player
BothRecorded(m, idA, idB) ==
  /\ BothIn(m, idA, idB)
  /\ idB \in DOMAIN RecordOf(m, idA).duels
  /\ idA \in DOMAIN RecordOf(m, idB).duels

\* wherever both duel maps carry an entry, the two entries tell the same
\* duel: the kills of one are the deaths of the other
Mirrored(idA, idB) ==
  \A i \in 1..Len(matches) :
    BothRecorded(matches[i], idA, idB) =>
      LET a == RecordOf(matches[i], idA).duels[idB]
          b == RecordOf(matches[i], idB).duels[idA]
      IN a.kills = b.deaths /\ a.deaths = b.kills

\* C25 as stated: for any collection and any two resolved ids A and B,
\* reconcile(A, B).aKills = reconcile(B, A).bKills and reconcile(A, B).bKills
\* = reconcile(B, A).aKills, matches in which both duel maps carry an entry
\* for the other player included.
C25_Symmetric ==
  duelStats.set =>
    /\ Reversed.set
    /\ duelStats.p1Kills = Reversed.p2Kills
    /\ duelStats.p2Kills = Reversed.p1Kills

\* C25 amended: the same, for the pairs whose two entries agree (kills of
\* one = deaths of the other) in every match in which both duel maps carry
\* an entry for the other player.
C25_SymmetricWhenMirrored ==
  (duelStats.set /\ Mirrored(player1Id, player2Id)) =>
    /\ Reversed.set
    /\ duelStats.p1Kills = Reversed.p2Kills
    /\ duelStats.p2Kills = Reversed.p1Kills

\* a pair with a match in which both duel maps carry agreeing entries and
\* unequal totals
C25_Witness ==
  /\ duelStats.set
  /\ Mirrored(player1Id, player2Id)
  /\ \E i \in 1..Len(matches) :
       BothRecorded(matches[i], player1Id, player2Id)
  /\ duelStats.p1Kills # duelStats.p2Kills
  /\ duelStats.p1Kills > 0

----------------------------------------------------------------------------
(* Properties of the lobby operations *)

NoDuplicates(lobby) ==
  \A i, j \in 1..Len(lobby) : lobby[i] = lobby[j] => i = j

\* C30: after any sequence of addPlayerToLobby, removePlayerFromLobby,
\* assignPlayer and Clear All the lobby has no duplicate steamId and at most
\* 10 ids; a step either leaves the lobby as it is (as an add of an id
\* already present or to a lobby of 10 does), or appends an id that was not
\* present to a lobby of fewer than 10, or removes one id, whose manual
\* assignment is gone afterwards, or empties the lobby and the assignments.
C30_LobbyOperations ==
  /\ [](NoDuplicates(lobbyPlayers) /\ Len(lobbyPlayers) <= 10)
  /\ [][\/ lobbyPlayers' = lobbyPlayers
        \/ \E id \in LobbyActors \ Range(lobbyPlayers) :
             /\ Len(lobbyPlayers) < 10
             /\ lobbyPlayers' = Append(lobbyPlayers, id)
        \/ \E id \in Range(lobbyPlayers) :
             /\ lobbyPlayers' = SelectSeq(lobbyPlayers, LAMBDA x : x # id)
             /\ id \notin DOMAIN manualAssignments'
        \/ /\ lobbyPlayers' = <<>>
           /\ DOMAIN manualAssignments' = {}]_vars

\* a lobby of 10 whose last member was removed and added again: the
\* assignment it had is gone, that of another member is kept, and the
\* eleventh player is not in the lobby
C30_Witness ==
  /\ Len(lobbyPlayers) = 10
  /\ lobbyPlayers[10] = "1"
  /\ "11" \notin Range(lobbyPlayers)
  /\ DOMAIN manualAssignments = {"10"}

----------------------------------------------------------------------------
(* Memory against the persistent store *)

StoredIds == DOMAIN db

MemoryIds == {matches[i].id : i \in 1..Len(matches)}

\* C28: when store operations are issued while earlier ones still await
\* their persistence step, then once all of them have completed the
\* collection in memory holds exactly the match ids of the persistent store.
C28_MemoryMatchesStore ==
  dbQueue = <<>> => MemoryIds = StoredIds

====
